---- MODULE Spec2Model ----
(***************************************************************************)
(* Referral graph of src/bot.py: the users and referrers tables, the       *)
(* handlers that write them (/start, link capture, /reset, /resetuser,     *)
(* /moveuser, join confirmation) and the read-only queries built on them   *)
(* (team statistics, rank, downline enumeration).                          *)
(***************************************************************************)
EXTENDS Integers, Sequences, FiniteSets, TLC

(***************************************************************************)
(* Bounds of the model.                                                    *)
(***************************************************************************)
\* telegram user ids are 1..NumIds
NumIds == 3
\* number of distinct outcomes of the random code generator that are sampled
NumCodes == 2

Ids == 1..NumIds

\* the identities of the team scenario
NumTeamIds == 6

\* the longest sponsor chain: one node more than the walks look at
NumChainIds == 22

\* celebrations of one identity and step are counted up to MaxTasks
MaxTasks == 2

\* the /moveuser updates that can be in flight at once
NumHandlers == 2

(***************************************************************************)
(* Characters and words.  A word (a ref code, a command argument) is a     *)
(* sequence of one-character strings.                                      *)
(***************************************************************************)
Letters ==
    << "A", "B", "C", "D", "E", "F", "G", "H", "I", "J", "K", "L", "M",
       "N", "O", "P", "Q", "R", "S", "T", "U", "V", "W", "X", "Y", "Z" >>

LowerLetters ==
    << "a", "b", "c", "d", "e", "f", "g", "h", "i", "j", "k", "l", "m",
       "n", "o", "p", "q", "r", "s", "t", "u", "v", "w", "x", "y", "z" >>

Digits == << "0", "1", "2", "3", "4", "5", "6", "7", "8", "9" >>

Range(s) == { s[i] : i \in DOMAIN s }

\* string.ascii_uppercase + string.digits
Alphabet == Range(Letters) \cup Range(Digits)

\* the upper-case form of every lower-case letter, and the reverse
UpperOf == [ch \in Range(LowerLetters) |->
               Letters[CHOOSE i \in DOMAIN LowerLetters : LowerLetters[i] = ch]]

LowerOf == [ch \in Range(Letters) |->
               LowerLetters[CHOOSE i \in DOMAIN Letters : Letters[i] = ch]]

UpperChar(ch) == IF ch \in DOMAIN UpperOf THEN UpperOf[ch] ELSE ch

LowerChar(ch) == IF ch \in DOMAIN LowerOf THEN LowerOf[ch] ELSE ch

\* str.upper() and str.lower()
Upper(w) == [i \in DOMAIN w |-> UpperChar(w[i])]
Lower(w) == [i \in DOMAIN w |-> LowerChar(w[i])]

\* str.isalnum() on the words of the model (ASCII letters and digits)
IsAlnum(w) ==
    /\ Len(w) > 0
    /\ \A i \in DOMAIN w : UpperChar(w[i]) \in Alphabet

\* SQL NULL / Python None for a sponsor code, and an absent command argument
NULL == << >>

(***************************************************************************)
(* generate_ref_code: length characters, each one secrets.choice(alphabet).*)
(* draw[i] is the outcome of the i-th choice.                              *)
(***************************************************************************)
RefCodeLength == 6

GenerateRefCode(draw, length) == [i \in 1..length |-> draw[i]]

\* the sampled outcomes of the random choices: ABC123, BBC123, CBC123, ...
Draw(i) == << Letters[i], "B", "C", "1", "2", "3" >>

Codes == { GenerateRefCode(Draw(i), RefCodeLength) : i \in 1..NumCodes }

(***************************************************************************)
(* The store.                                                              *)
(*   users     : telegram_user_id (PRIMARY KEY) -> row                     *)
(*   referrers : set of rows, ref_code is the PRIMARY KEY                  *)
(* last is the handler that ran last, the caller, the branch it took and   *)
(* the code it answered with (an observation, not program state).          *)
(* tasks counts, for the identities and steps it is defined on, the calls  *)
(* asyncio.create_task(show_progress_celebration(context, user_id, step,   *)
(* content)) made so far; a key is << user_id, step >>.                    *)
(* moves holds, for every /moveuser update in flight, the position of its  *)
(* coroutine and the local variables it keeps across its awaits.           *)
(***************************************************************************)
VARIABLES users, referrers, last, epc, stack, seen, out, owner_ids_str, tasks,
          moves, user_data, links

storeVars == << users, referrers >>
enumVars == << epc, stack, seen, out >>
\* the environment of the process: OWNER_USER_IDS, as its comma-separated items
envVars == << owner_ids_str >>
\* the link capture: context.user_data of the observed users, and the
\* step1_url and step2_url columns of referrers by owner
captureVars == << user_data, links >>
vars == << users, referrers, last, epc, stack, seen, out, owner_ids_str, tasks,
          moves, user_data, links >>

\* no session is observed, no URL column is observed
NoUserData == << >>

NoLinks == << >>

\* no celebration is counted
NoTasks == << >>

\* asyncio.create_task(show_progress_celebration(context, user_id, step, content))
CreateTask(t, user_id, step) ==
    IF << user_id, step >> \in DOMAIN t
    THEN [t EXCEPT ![<< user_id, step >>] = @ + 1]
    ELSE t

\* the count of a key stops at MaxTasks
CanCreateTask(t, user_id, step) ==
    << user_id, step >> \in DOMAIN t => t[<< user_id, step >>] < MaxTasks

\* a row of users as INSERTed by upsert_user
\* (the progress columns take their DEFAULT 0)
NewUserRow(sponsor_code) ==
    [ sponsor_code |-> sponsor_code,
      step1_confirmed |-> FALSE,
      step2_warning_ack |-> FALSE,
      progress_step |-> 0,
      progress_visited_sharing |-> FALSE,
      progress_shared_invite |-> FALSE,
      progress_visited_member_tools |-> FALSE ]

HasRow(U, id) == id \in DOMAIN U

\* get_user_progress: the step and the three stored flags, 0 when the row
\* is missing
get_user_progress(U, id) ==
    IF HasRow(U, id)
    THEN [ progress_step |-> U[id].progress_step,
           visited_sharing |-> U[id].progress_visited_sharing,
           shared_invite |-> U[id].progress_shared_invite,
           visited_member_tools |-> U[id].progress_visited_member_tools ]
    ELSE [ progress_step |-> 0,
           visited_sharing |-> FALSE,
           shared_invite |-> FALSE,
           visited_member_tools |-> FALSE ]

\* UPDATE users SET progress_step = MAX(progress_step, step)
\*   WHERE telegram_user_id = id
update_progress_step(U, id, step) ==
    IF ~HasRow(U, id) THEN U
    ELSE [U EXCEPT ![id].progress_step = IF @ > step THEN @ ELSE step]

\* faulty variant of the operator below: the DELETE has no WHERE clause
DeleteUserAll(U, id) == << >>

\* DELETE FROM users WHERE telegram_user_id = id
DeleteUser(U, id) == [x \in (DOMAIN U) \ {id} |-> U[x]]

\* SELECT ... FROM referrers WHERE owner_telegram_id = id; {} is None
RowsByOwner(R, id) == { r \in R : r.owner_telegram_id = id }

\* SELECT ... FROM referrers WHERE ref_code = code; {} is None
RowsByCode(R, code) == { r \in R : r.ref_code = code }

\* fetchone() of a non-empty result
FetchOne(rows) == CHOOSE r \in rows : TRUE

get_referrer_by_owner(R, id) == RowsByOwner(R, id)

get_referrer_by_code(R, code) == RowsByCode(R, code)

Last(op, uid, branch, code) ==
    [op |-> op, uid |-> uid, branch |-> branch, code |-> code]

(***************************************************************************)
(* upsert_user: insert the row, or set the sponsor only if it is unset.    *)
(***************************************************************************)
\* faulty variant of the operator below: the UPDATE is not guarded by "not existing"
UpsertUserOverwrite(U, id, sponsor_code) ==
    IF ~HasRow(U, id)
    THEN U @@ (id :> NewUserRow(sponsor_code))
    ELSE IF sponsor_code # NULL
         THEN [U EXCEPT ![id].sponsor_code = sponsor_code]
         ELSE U

\* faulty variant of the operator below: the INSERT drops the sponsor code
UpsertUserInsertNull(U, id, sponsor_code) ==
    IF ~HasRow(U, id)
    THEN U @@ (id :> NewUserRow(NULL))
    ELSE IF sponsor_code # NULL /\ U[id].sponsor_code = NULL
         THEN [U EXCEPT ![id].sponsor_code = sponsor_code]
         ELSE U

upsert_user(U, id, sponsor_code) ==
    IF ~HasRow(U, id)
    THEN U @@ (id :> NewUserRow(sponsor_code))
    ELSE IF sponsor_code # NULL /\ U[id].sponsor_code = NULL
         THEN [U EXCEPT ![id].sponsor_code = sponsor_code]
         ELSE U

(***************************************************************************)
(* /start [payload]                                                        *)
(***************************************************************************)
\* re.match(r"^[A-Z0-9]{4,12}$", sponsor_code)
MatchesSponsorRegex(w) ==
    /\ Len(w) >= 4
    /\ Len(w) <= 12
    /\ \A i \in DOMAIN w : w[i] \in Alphabet

\* the sponsor_code /start hands to upsert_user; arg = NULL is "no argument"
StartSponsorCode(arg) ==
    IF arg = NULL
    THEN NULL
    ELSE IF MatchesSponsorRegex(Upper(arg)) THEN Upper(arg) ELSE NULL

\* payloads tried: none, every sampled code, a code in lower case, a short word
StartArgs ==
    {NULL} \cup Codes \cup { Lower(GenerateRefCode(Draw(1), RefCodeLength)) }
        \cup { << "a", "b" >> }

StartBranch(U, id, sponsor_code) ==
    IF ~HasRow(U, id) THEN "insert"
    ELSE IF upsert_user(U, id, sponsor_code) # U THEN "update" ELSE "keep"

Start(u, arg) ==
    LET sponsor_code == StartSponsorCode(arg) IN
    /\ users' = upsert_user(users, u, sponsor_code)
    /\ last' = Last("start", u, StartBranch(users, u, sponsor_code), sponsor_code)
    /\ UNCHANGED << referrers, enumVars, envVars, captureVars, tasks, moves >>

(***************************************************************************)
(* upsert_referrer, reached from the link capture of on_text_message once  *)
(* both URLs are accepted.  draw is the outcome of the random choices of   *)
(* the generate_ref_code call the rejection loop ends with.  RegisterDraw   *)
(* and SaveLinksStep2Last are the two saving paths seen from the store:    *)
(* the order in which the two URLs arrive selects the action, and the URLs *)
(* and the session are left to OnTextMessage further below.                *)
(***************************************************************************)
ReferrerRow(ref_code, owner) ==
    [ref_code |-> ref_code, owner_telegram_id |-> owner]

\* faulty variant of the operator below: the lookup by owner is skipped, every call inserts
UpsertReferrerAlwaysInsert(R, id, draw) ==
    [ table |-> R \cup {ReferrerRow(GenerateRefCode(draw, RefCodeLength), id)},
      ref_code |-> GenerateRefCode(draw, RefCodeLength),
      created |-> TRUE ]

\* faulty variant of the operator below: the INSERT is lost (no commit)
UpsertReferrerNoInsert(R, id, draw) ==
    IF get_referrer_by_owner(R, id) # {}
    THEN [ table |-> R,
           ref_code |-> FetchOne(get_referrer_by_owner(R, id)).ref_code,
           created |-> FALSE ]
    ELSE [ table |-> R,
           ref_code |-> GenerateRefCode(draw, RefCodeLength),
           created |-> TRUE ]

upsert_referrer(R, id, draw) ==
    IF get_referrer_by_owner(R, id) # {}
    THEN [ table |-> R,
           ref_code |-> FetchOne(get_referrer_by_owner(R, id)).ref_code,
           created |-> FALSE ]
    ELSE [ table |-> R \cup {ReferrerRow(GenerateRefCode(draw, RefCodeLength), id)},
           ref_code |-> GenerateRefCode(draw, RefCodeLength),
           created |-> TRUE ]

\* the rejection loop leaves with a code no row of referrers has
DrawAccepted(R, draw) ==
    get_referrer_by_code(R, GenerateRefCode(draw, RefCodeLength)) = {}

\* the link capture of u when the rejection loop ends with the draw `draw`
\* the Step 1 URL arrives last (the Step 2 URL was pasted first and kept):
\* upsert_referrer and the reply, nothing else
RegisterDraw(u, draw) ==
    /\ get_referrer_by_owner(referrers, u) # {} \/ DrawAccepted(referrers, draw)
    /\ LET ref == upsert_referrer(referrers, u, draw) IN
       /\ referrers' = ref.table
       /\ last' = Last("register", u,
                       IF ref.created THEN "created" ELSE "existing",
                       ref.ref_code)
    /\ UNCHANGED << users, enumVars, envVars, captureVars, tasks, moves >>

\* the Step 2 URL arrives last: upsert_referrer, then the progress step is
\* raised to 3 and the celebration of step 3 is created if it was below 3
SaveLinksStep2Last(u, draw) ==
    /\ get_referrer_by_owner(referrers, u) # {} \/ DrawAccepted(referrers, draw)
    /\ LET ref == upsert_referrer(referrers, u, draw)
           old_progress == get_user_progress(users, u) IN
       /\ referrers' = ref.table
       /\ IF old_progress.progress_step < 3
          THEN /\ CanCreateTask(tasks, u, 3)
               /\ users' = update_progress_step(users, u, 3)
               /\ tasks' = CreateTask(tasks, u, 3)
          ELSE UNCHANGED << users, tasks >>
       /\ last' = Last("save_links", u,
                       IF ref.created THEN "created" ELSE "existing",
                       ref.ref_code)
    /\ UNCHANGED << enumVars, envVars, captureVars, moves >>

RegisterAffiliate(u) == \E i \in 1..NumCodes : RegisterDraw(u, Draw(i))

(***************************************************************************)
(* Link capture with its session: ref:ready:yes / ref:have_now, the        *)
(* set_links clicks and the two URL branches of on_text_message.           *)
(* A text is its scheme, the pieces of its network location and the pieces *)
(* of what follows; it arrives stripped.  A substring test is a test on    *)
(* the pieces.                                                             *)
(***************************************************************************)
Text(scheme, netloc, rest) == [ scheme |-> scheme, netloc |-> netloc, rest |-> rest ]

\* the empty string
EmptyText == Text("", << >>, << >>)

\* str.lower() on the pieces used
LowerPiece(p) ==
    CASE p = "HTTPS://" -> "https://"
      [] p = "AxisFunded.com" -> "axisfunded.com"
      [] p = "PANDORA" -> "pandora"
      [] OTHER -> p

\* the texts pasted: a word, the two kinds of link in lower and mixed case, a
\* link that is of both kinds, and links of neither kind
Messages ==
    { Text("", << >>, << "hello" >>),
      Text("https://", << "axisfunded.com" >>, << "pandora" >>),
      Text("HTTPS://", << "www.", "AxisFunded.com" >>, << "PANDORA" >>),
      Text("https://", << "axisfunded.com" >>, << "axisfundedaffiliates" >>),
      Text("https://", << "axisfunded.com" >>, << "pandora", "axisfundedaffiliates" >>),
      Text("https://", << "example.com" >>, << "pandora" >>),
      Text("https://", << "axisfunded.com" >>, << "other" >>) }

\* re.match(r"^https?://", text, flags=re.IGNORECASE)
looks_like_url(text) == LowerPiece(text.scheme) \in { "http://", "https://" }

\* word in text.lower()
ContainsWord(text, word) ==
    \/ \E i \in DOMAIN text.netloc : LowerPiece(text.netloc[i]) = word
    \/ \E i \in DOMAIN text.rest : LowerPiece(text.rest[i]) = word

\* domain.lower() in urlparse(url).netloc.lower()
url_domain_contains(url, domain) ==
    \E i \in DOMAIN url.netloc : LowerPiece(url.netloc[i]) = LowerPiece(domain)

validate_step1_url(url) ==
    ContainsWord(url, "pandora") /\ url_domain_contains(url, "axisfunded.com")

validate_step2_url(url) ==
    ContainsWord(url, "axisfundedaffiliates") /\ url_domain_contains(url, "axisfunded.com")

\* faulty variant of the operator below: what is not a Step 2 link is taken
\* for a Step 1 link
DetectUrlTypeNoStep1Test(url) ==
    IF validate_step2_url(url) THEN "step2" ELSE "step1"

\* 'step1', 'step2' or None
detect_url_type(url) ==
    IF validate_step1_url(url) THEN "step1"
    ELSE IF validate_step2_url(url) THEN "step2"
    ELSE "none"

\* the session after context.user_data.clear(), and before the first write:
\* .get() of a missing key is None, which is neither True nor a URL
EmptyUserData ==
    [ awaiting_step1_url |-> FALSE, awaiting_step2_url |-> FALSE,
      temp_step1_url |-> EmptyText, temp_step2_url |-> EmptyText ]

\* context.user_data.clear()
ClearUserData(D, id) ==
    IF id \in DOMAIN D THEN [D EXCEPT ![id] = EmptyUserData] ELSE D

\* the step1_url and step2_url written by the UPDATE or the INSERT of
\* upsert_referrer
UpsertLinks(L, id, step1_url, step2_url) ==
    [ o \in (DOMAIN L) \cup {id} |->
        IF o = id THEN [ step1_url |-> step1_url, step2_url |-> step2_url ] ELSE L[o] ]

\* ref:ready:yes / ref:have_now
OnRefClickReady(u) ==
    /\ u \in DOMAIN user_data
    /\ user_data' = [user_data EXCEPT ![u] =
                        [ awaiting_step1_url |-> TRUE, awaiting_step2_url |-> FALSE,
                          temp_step1_url |-> EmptyText, temp_step2_url |-> EmptyText ]]
    /\ last' = Last("ref_ready", u, "ask_step1", NULL)
    /\ UNCHANGED << storeVars, enumVars, envVars, links, tasks, moves >>

\* menu:set_links / affiliate:set_links
SetLinksClick(u) ==
    /\ u \in DOMAIN user_data
    /\ user_data' = [user_data EXCEPT ![u] = EmptyUserData]
    /\ last' = Last("set_links", u, "question", NULL)
    /\ UNCHANGED << storeVars, enumVars, envVars, links, tasks, moves >>

\* the branch on_text_message takes for the session d and the text msg
\* (awaiting_member_code is not set)
CaptureBranch(d, msg) ==
    IF d.awaiting_step1_url
    THEN IF ~looks_like_url(msg) THEN "invalid_url"
         ELSE IF detect_url_type(msg) = "step2" THEN "step2_first"
         ELSE IF detect_url_type(msg) # "step1" THEN "invalid_step1"
         ELSE IF d.temp_step2_url # EmptyText THEN "saved_step1_last"
         ELSE "ask_step2"
    ELSE IF d.awaiting_step2_url
    THEN IF ~looks_like_url(msg) THEN "invalid_url"
         ELSE IF detect_url_type(msg) = "step1" THEN "step1_in_step2"
         ELSE IF detect_url_type(msg) # "step2" THEN "invalid_step2"
         ELSE IF d.temp_step1_url = EmptyText THEN "flow_error"
         ELSE "saved_step2_last"
    ELSE "other"

\* the session the branch leaves
CaptureUserData(d, msg) ==
    LET branch == CaptureBranch(d, msg) IN
    IF branch = "step2_first" THEN [d EXCEPT !.temp_step2_url = msg]
    ELSE IF branch = "ask_step2"
         THEN [d EXCEPT !.temp_step1_url = msg, !.awaiting_step1_url = FALSE,
                        !.awaiting_step2_url = TRUE]
    ELSE IF branch = "saved_step1_last"
         THEN [d EXCEPT !.temp_step1_url = EmptyText, !.temp_step2_url = EmptyText,
                        !.awaiting_step1_url = FALSE, !.awaiting_step2_url = FALSE]
    ELSE IF branch = "step1_in_step2" THEN [d EXCEPT !.temp_step1_url = msg]
    ELSE IF branch = "flow_error" THEN [d EXCEPT !.awaiting_step2_url = FALSE]
    ELSE IF branch = "saved_step2_last"
         THEN [d EXCEPT !.temp_step1_url = EmptyText, !.temp_step2_url = EmptyText,
                        !.awaiting_step2_url = FALSE]
    ELSE d

\* on_text_message of u with the text msg, the rejection loop of a
\* registration ending with the draw `draw`
OnTextMessage(u, msg, draw) ==
    LET d == user_data[u]
        branch == CaptureBranch(d, msg)
        ref == upsert_referrer(referrers, u, draw)
        old_progress == get_user_progress(users, u) IN
    /\ u \in DOMAIN user_data
    /\ user_data' = [user_data EXCEPT ![u] = CaptureUserData(d, msg)]
    /\ IF branch = "saved_step1_last"
       THEN /\ get_referrer_by_owner(referrers, u) # {} \/ DrawAccepted(referrers, draw)
            /\ referrers' = ref.table
            /\ links' = UpsertLinks(links, u, msg, d.temp_step2_url)
            /\ last' = Last("text", u, branch, ref.ref_code)
            /\ UNCHANGED << users, tasks >>
       ELSE IF branch = "saved_step2_last"
       THEN /\ get_referrer_by_owner(referrers, u) # {} \/ DrawAccepted(referrers, draw)
            /\ referrers' = ref.table
            /\ links' = UpsertLinks(links, u, d.temp_step1_url, msg)
            /\ IF old_progress.progress_step < 3
               THEN /\ CanCreateTask(tasks, u, 3)
                    /\ users' = update_progress_step(users, u, 3)
                    /\ tasks' = CreateTask(tasks, u, 3)
               ELSE UNCHANGED << users, tasks >>
            /\ last' = Last("text", u, branch, ref.ref_code)
       ELSE /\ last' = Last("text", u, branch, NULL)
            /\ UNCHANGED << users, referrers, links, tasks >>
    /\ UNCHANGED << enumVars, envVars, moves >>

(***************************************************************************)
(* /reset [confirm]                                                        *)
(***************************************************************************)
ConfirmWord == << "C", "O", "N", "F", "I", "R", "M" >>

\* RESET_REQUIRE_CONFIRM is unset or anything but "false"
RequireConfirm == TRUE

ResetArgs == { NULL, ConfirmWord, << "n", "o" >> }

ResetRefused(arg) ==
    RequireConfirm /\ (arg = NULL \/ Lower(arg) # Lower(ConfirmWord))

\* faulty variant of the operator below: the reset also deletes the caller's
\* node
ResetWithNode(u, arg) ==
    /\ users' = IF ResetRefused(arg) THEN users ELSE DeleteUser(users, u)
    /\ referrers' = IF ResetRefused(arg) THEN referrers
                    ELSE { r \in referrers : r.owner_telegram_id # u }
    /\ user_data' = IF ResetRefused(arg) THEN user_data ELSE ClearUserData(user_data, u)
    /\ last' = Last("reset", u, IF ResetRefused(arg) THEN "prompt" ELSE "done", NULL)
    /\ UNCHANGED << enumVars, envVars, links, tasks, moves >>

Reset(u, arg) ==
    /\ users' = IF ResetRefused(arg) THEN users ELSE DeleteUser(users, u)
    /\ user_data' = IF ResetRefused(arg) THEN user_data ELSE ClearUserData(user_data, u)
    /\ last' = Last("reset", u, IF ResetRefused(arg) THEN "prompt" ELSE "done", NULL)
    /\ UNCHANGED << referrers, enumVars, envVars, links, tasks, moves >>

(***************************************************************************)
(* join:confirm_step1 -> set_step1_confirmed(True), set_step2_warning_ack  *)
(* (False); both are INSERT ... ON CONFLICT DO UPDATE.                     *)
(***************************************************************************)
set_step1_confirmed(U, id, confirmed) ==
    IF HasRow(U, id)
    THEN [U EXCEPT ![id].step1_confirmed = confirmed]
    ELSE U @@ (id :> [NewUserRow(NULL) EXCEPT !.step1_confirmed = confirmed])

set_step2_warning_ack(U, id, ack) ==
    IF HasRow(U, id)
    THEN [U EXCEPT ![id].step2_warning_ack = ack]
    ELSE U @@ (id :> [NewUserRow(NULL) EXCEPT !.step2_warning_ack = ack])

JoinConfirmStep1(u) ==
    /\ users' = set_step2_warning_ack(set_step1_confirmed(users, u, TRUE), u, FALSE)
    /\ last' = Last("join", u, "confirm_step1", NULL)
    /\ UNCHANGED << referrers, enumVars, envVars, captureVars, tasks, moves >>

(***************************************************************************)
(* Sponsor confirmation: join:confirm_sponsor_yes and menu:join.           *)
(***************************************************************************)
\* the columns of users after db_init: CREATE TABLE and the ALTER TABLEs
UsersColumns ==
    { "telegram_user_id", "sponsor_code", "step1_confirmed", "step2_warning_ack",
      "updated_at", "last_seen_version", "created_at", "progress_step",
      "progress_visited_sharing", "progress_shared_invite",
      "progress_visited_member_tools" }

\* the columns the statement of set_sponsor_confirmed names
SponsorConfirmedColumns ==
    { "telegram_user_id", "sponsor_code", "step1_confirmed", "step2_warning_ack",
      "sponsor_confirmed", "updated_at" }

\* INSERT ... ON CONFLICT DO UPDATE SET sponsor_confirmed = ...; a statement
\* that names a column the table does not have raises sqlite3.OperationalError
\* and writes nothing
set_sponsor_confirmed(U, id, confirmed) ==
    IF ~(SponsorConfirmedColumns \subseteq UsersColumns)
    THEN [ table |-> U, error |-> TRUE ]
    ELSE [ table |-> IF HasRow(U, id) THEN U ELSE U @@ (id :> NewUserRow(NULL)),
           error |-> FALSE ]

\* the keys of the dict get_user_state returns; the row is read with
\* SELECT sponsor_code, step1_confirmed, step2_warning_ack
get_user_state(U, id) ==
    IF ~HasRow(U, id)
    THEN [ sponsor_code |-> NULL, step1_confirmed |-> FALSE, step2_warning_ack |-> FALSE ]
    ELSE [ sponsor_code |-> U[id].sponsor_code,
           step1_confirmed |-> U[id].step1_confirmed,
           step2_warning_ack |-> U[id].step2_warning_ack ]

\* state.get("sponsor_confirmed", False)
StateSponsorConfirmed(state) ==
    IF "sponsor_confirmed" \in DOMAIN state THEN state["sponsor_confirmed"] ELSE FALSE

\* join:confirm_sponsor_yes: the exception of set_sponsor_confirmed leaves the
\* handler before the success message
JoinConfirmSponsorYes(u) ==
    LET res == set_sponsor_confirmed(users, u, TRUE) IN
    /\ users' = res.table
    /\ last' = Last("confirm_sponsor_yes", u,
                    IF res.error THEN "error" ELSE "recorded", NULL)
    /\ UNCHANGED << referrers, enumVars, envVars, captureVars, tasks, moves >>

\* menu:join
MenuJoin(u) ==
    LET state == get_user_state(users, u)
        sponsor_code == state.sponsor_code
        sponsor_confirmed == StateSponsorConfirmed(state) IN
    /\ last' = Last("menu_join", u,
                    IF /\ sponsor_code # NULL
                       /\ ~sponsor_confirmed
                       /\ get_referrer_by_code(referrers, sponsor_code) # {}
                    THEN "sponsor_confirmation" ELSE "join_menu",
                    sponsor_code)
    /\ UNCHANGED << storeVars, enumVars, envVars, captureVars, tasks, moves >>

(***************************************************************************)
(* Roles.  is_owner reads OWNER_USER_IDS on every call:                    *)
(*   [int(x.strip()) for x in owner_ids_str.split(",") if x.strip().isdigit()] *)
(* The value is kept as the list of its items between the commas; << >> is *)
(* the unset or empty variable.                                            *)
(***************************************************************************)
RECURSIVE LStrip(_)
LStrip(w) == IF w # << >> /\ Head(w) = " " THEN LStrip(Tail(w)) ELSE w

RECURSIVE RStrip(_)
RStrip(w) ==
    IF w # << >> /\ w[Len(w)] = " " THEN RStrip(SubSeq(w, 1, Len(w) - 1)) ELSE w

\* str.strip
Strip(w) == RStrip(LStrip(w))

\* str.isdigit
IsDigit(w) == w # << >> /\ \A i \in DOMAIN w : w[i] \in Range(Digits)

DigitValue(ch) == (CHOOSE i \in DOMAIN Digits : Digits[i] = ch) - 1

RECURSIVE IntOf(_)
\* int(x) of a string of digits
IntOf(w) ==
    IF w = << >> THEN 0
    ELSE 10 * IntOf(SubSeq(w, 1, Len(w) - 1)) + DigitValue(w[Len(w)])

\* the items that are numbers after strip, as numbers
ParseOwnerIds(items) ==
    { IntOf(Strip(items[i])) : i \in { j \in DOMAIN items : IsDigit(Strip(items[j])) } }

\* OWNER_USER_IDS=1 in the deployment modelled
OwnerIdsStr == << << "1" >> >>

OwnerUserIds == ParseOwnerIds(OwnerIdsStr)

\* faulty variant of the operator below: the empty list lets everyone in
IsOwnerOpenWhenUnset(user_id) ==
    owner_ids_str = << >> \/ user_id \in ParseOwnerIds(owner_ids_str)

is_owner(user_id) ==
    IF owner_ids_str = << >> THEN FALSE
    ELSE user_id \in ParseOwnerIds(owner_ids_str)

\* words given as codes to the owner commands
CodeArgs ==
    Codes \cup { Lower(GenerateRefCode(Draw(1), RefCodeLength)) } \cup { << "a", "b" >> }

IsConfirmToken(token) == token # NULL /\ Upper(token) = ConfirmWord

\* the URL columns go with the rows of DELETE FROM referrers WHERE
\* owner_telegram_id = id
DeleteLinksOf(L, id) == [o \in (DOMAIN L) \ {id} |-> L[o]]

(***************************************************************************)
(* /resetuser <bot_code> CONFIRM                                           *)
(***************************************************************************)
\* DELETE FROM referrers WHERE owner_telegram_id = id
DeleteReferrersOf(R, id) == { r \in R : r.owner_telegram_id # id }

ResetUserBranch(R, caller, code, token) ==
    IF ~is_owner(caller) THEN "denied"
    ELSE IF code = NULL THEN "usage"
    ELSE IF RowsByCode(R, Upper(code)) = {} THEN "not_found"
    ELSE IF ~IsConfirmToken(token) THEN "preview"
    ELSE "done"

ResetUserTarget(R, code) == FetchOne(RowsByCode(R, Upper(code))).owner_telegram_id

ResetUser(caller, code, token) ==
    LET branch == ResetUserBranch(referrers, caller, code, token) IN
    /\ IF branch = "done"
       THEN /\ users' = DeleteUser(users, ResetUserTarget(referrers, code))
            /\ referrers' = DeleteReferrersOf(referrers, ResetUserTarget(referrers, code))
            /\ links' = DeleteLinksOf(links, ResetUserTarget(referrers, code))
       ELSE UNCHANGED << users, referrers, links >>
    /\ last' = Last("resetuser", caller, branch,
                    IF branch = "done" THEN Upper(code) ELSE NULL)
    /\ UNCHANGED << enumVars, envVars, user_data, tasks, moves >>

(***************************************************************************)
(* /moveuser <user_code> <new_sponsor_code> [CONFIRM]                      *)
(***************************************************************************)
MaxDepth == 20

\* faulty variant of the operator below: the walk does not climb
IsInUplineFirstOnly(U, R, check_code, target_id, depth) ==
    /\ RowsByCode(R, check_code) # {}
    /\ FetchOne(RowsByCode(R, check_code)).owner_telegram_id = target_id

RECURSIVE is_in_upline(_, _, _, _, _)
\* is target_id the owner of check_code or of a code on its sponsor chain
is_in_upline(U, R, check_code, target_id, depth) ==
    IF depth > MaxDepth THEN FALSE
    ELSE IF RowsByCode(R, check_code) = {} THEN FALSE
    ELSE LET check_id == FetchOne(RowsByCode(R, check_code)).owner_telegram_id IN
         IF check_id = target_id THEN TRUE
         ELSE IF ~HasRow(U, check_id) \/ U[check_id].sponsor_code = NULL THEN FALSE
         ELSE is_in_upline(U, R, U[check_id].sponsor_code, target_id, depth + 1)

\* len(code) != 6 or not code.isalnum()
InvalidCode(w) == Len(w) # 6 \/ ~IsAlnum(w)

\* faulty variant of the operator below: the confirmation word is not asked for
MoveUserBranchNoToken(U, R, caller, args) ==
    IF ~is_owner(caller) THEN "denied"
    ELSE IF Len(args) < 2 \/ Len(args) > 3 THEN "usage"
    ELSE LET user_code == Upper(args[1])
             new_sponsor_code == Upper(args[2]) IN
         IF InvalidCode(user_code) THEN "invalid_user_code"
         ELSE IF InvalidCode(new_sponsor_code) THEN "invalid_sponsor_code"
         ELSE IF user_code = new_sponsor_code THEN "same_code"
         ELSE IF RowsByCode(R, user_code) = {} THEN "user_not_found"
         ELSE IF RowsByCode(R, new_sponsor_code) = {} THEN "sponsor_not_found"
         ELSE IF is_in_upline(U, R, user_code,
                     FetchOne(RowsByCode(R, new_sponsor_code)).owner_telegram_id, 0)
              THEN "circular"
         ELSE "moved"

\* faulty variant of the operator below: the new sponsor is not looked up
MoveUserBranchNoSponsorCheck(U, R, caller, args) ==
    IF ~is_owner(caller) THEN "denied"
    ELSE IF Len(args) < 2 \/ Len(args) > 3 THEN "usage"
    ELSE LET user_code == Upper(args[1])
             new_sponsor_code == Upper(args[2]) IN
         IF InvalidCode(user_code) THEN "invalid_user_code"
         ELSE IF InvalidCode(new_sponsor_code) THEN "invalid_sponsor_code"
         ELSE IF user_code = new_sponsor_code THEN "same_code"
         ELSE IF RowsByCode(R, user_code) = {} THEN "user_not_found"
         ELSE IF /\ RowsByCode(R, new_sponsor_code) # {}
                 /\ is_in_upline(U, R, user_code,
                        FetchOne(RowsByCode(R, new_sponsor_code)).owner_telegram_id, 0)
              THEN "circular"
         ELSE IF Len(args) = 3 /\ Upper(args[3]) = ConfirmWord THEN "moved"
         ELSE "preview"

\* faulty variant of the operator below: the caller is not checked
MoveUserBranchNoOwnerCheck(U, R, caller, args) ==
    IF Len(args) < 2 \/ Len(args) > 3 THEN "usage"
    ELSE LET user_code == Upper(args[1])
             new_sponsor_code == Upper(args[2]) IN
         IF InvalidCode(user_code) THEN "invalid_user_code"
         ELSE IF InvalidCode(new_sponsor_code) THEN "invalid_sponsor_code"
         ELSE IF user_code = new_sponsor_code THEN "same_code"
         ELSE IF RowsByCode(R, user_code) = {} THEN "user_not_found"
         ELSE IF RowsByCode(R, new_sponsor_code) = {} THEN "sponsor_not_found"
         ELSE IF is_in_upline(U, R, user_code,
                     FetchOne(RowsByCode(R, new_sponsor_code)).owner_telegram_id, 0)
              THEN "circular"
         ELSE IF Len(args) = 3 /\ Upper(args[3]) = ConfirmWord THEN "moved"
         ELSE "preview"

\* args is the list of command arguments, one to three words
MoveUserBranch(U, R, caller, args) ==
    IF ~is_owner(caller) THEN "denied"
    ELSE IF Len(args) < 2 \/ Len(args) > 3 THEN "usage"
    ELSE LET user_code == Upper(args[1])
             new_sponsor_code == Upper(args[2]) IN
         IF InvalidCode(user_code) THEN "invalid_user_code"
         ELSE IF InvalidCode(new_sponsor_code) THEN "invalid_sponsor_code"
         ELSE IF user_code = new_sponsor_code THEN "same_code"
         ELSE IF RowsByCode(R, user_code) = {} THEN "user_not_found"
         ELSE IF RowsByCode(R, new_sponsor_code) = {} THEN "sponsor_not_found"
         ELSE IF is_in_upline(U, R, user_code,
                     FetchOne(RowsByCode(R, new_sponsor_code)).owner_telegram_id, 0)
              THEN "circular"
         ELSE IF Len(args) = 3 /\ Upper(args[3]) = ConfirmWord THEN "moved"
         ELSE "preview"

\* faulty variant of the operator below: the UPDATE has no WHERE clause
UpdateSponsorAllRows(U, id, sponsor_code) ==
    [x \in DOMAIN U |-> [U[x] EXCEPT !.sponsor_code = sponsor_code]]

\* UPDATE users SET sponsor_code = ? WHERE telegram_user_id = ?
UpdateSponsor(U, id, sponsor_code) ==
    IF HasRow(U, id) THEN [U EXCEPT ![id].sponsor_code = sponsor_code] ELSE U

\* the two tables after moveuser_cmd has left by the branch `branch`
MoveUserApply(U, R, args, branch) ==
    IF branch = "moved"
    THEN << UpdateSponsor(U, FetchOne(RowsByCode(R, Upper(args[1]))).owner_telegram_id,
                          Upper(args[2])),
            R >>
    ELSE << U, R >>

\* the two tables after moveuser_cmd has returned
MoveUserStore(U, R, caller, args) ==
    MoveUserApply(U, R, args, MoveUserBranch(U, R, caller, args))

\* the argument lists tried: one word, two words, two words and a token
MoveUserArgs ==
    { << a >> : a \in Codes }
    \cup { << a, b >> : a \in CodeArgs, b \in CodeArgs }
    \cup { << a, b, t >> : a \in CodeArgs, b \in CodeArgs, t \in { Lower(ConfirmWord) } }

MoveUser(caller, args) ==
    LET branch == MoveUserBranch(users, referrers, caller, args)
        store == MoveUserApply(users, referrers, args, branch) IN
    /\ users' = store[1]
    /\ referrers' = store[2]
    /\ last' = Last("moveuser", caller, branch,
                    IF branch \in {"circular", "preview", "moved"}
                    THEN Upper(args[1]) ELSE NULL)
    /\ UNCHANGED << enumVars, envVars, captureVars, tasks, moves >>

(***************************************************************************)
(* moveuser_cmd as the coroutine it is.  Between the circular-reference    *)
(* test and the UPDATE the handler awaits context.bot.get_chat (twice or   *)
(* three times); the event loop can run any other handler there.  Across   *)
(* the awaits the coroutine keeps user_code, new_sponsor_code and          *)
(* user_telegram_id.  Two observations ride along: overlapped, whether     *)
(* another /moveuser was suspended when this one was validated, and stale, *)
(* whether the test it had passed fails on the store it writes to.         *)
(***************************************************************************)
Handlers == 1..NumHandlers

IdleMove ==
    [ pc |-> "idle", caller |-> 0, user_code |-> NULL, new_sponsor_code |-> NULL,
      user_telegram_id |-> 0, overlapped |-> FALSE, stale |-> FALSE ]

\* no /moveuser update is in flight
NoMoves == [h \in Handlers |-> IdleMove]

\* moveuser_cmd from its entry to the first await behind the tests: every
\* branch but "moved" replies and returns
MoveUserValidate(h, caller, args) ==
    /\ moves[h].pc = "idle"
    /\ LET branch == MoveUserBranch(users, referrers, caller, args) IN
       IF branch = "moved"
       THEN /\ moves' = [moves EXCEPT ![h] =
                   [ pc |-> "suspended",
                     caller |-> caller,
                     user_code |-> Upper(args[1]),
                     new_sponsor_code |-> Upper(args[2]),
                     user_telegram_id |->
                         FetchOne(RowsByCode(referrers, Upper(args[1]))).owner_telegram_id,
                     overlapped |-> \E g \in Handlers : moves[g].pc = "suspended",
                     stale |-> FALSE ]]
            /\ last' = Last("moveuser", caller, "validated", Upper(args[1]))
       ELSE /\ last' = Last("moveuser", caller, branch,
                            IF branch \in {"circular", "preview"}
                            THEN Upper(args[1]) ELSE NULL)
            /\ UNCHANGED moves
    /\ UNCHANGED << storeVars, enumVars, envVars, captureVars, tasks >>

\* faulty variant of the operator below: the test is repeated before the UPDATE
ResumeStoreRevalidated(U, R, m) ==
    IF \/ RowsByCode(R, m.new_sponsor_code) = {}
       \/ is_in_upline(U, R, m.user_code,
              FetchOne(RowsByCode(R, m.new_sponsor_code)).owner_telegram_id, 0)
    THEN U
    ELSE UpdateSponsor(U, m.user_telegram_id, m.new_sponsor_code)

\* the UPDATE behind the awaits, with the values the coroutine has kept
ResumeStore(U, R, m) == UpdateSponsor(U, m.user_telegram_id, m.new_sponsor_code)

\* moveuser_cmd from the last await to its end: UPDATE, commit, reply
MoveUserResume(h) ==
    /\ moves[h].pc = "suspended"
    /\ users' = ResumeStore(users, referrers, moves[h])
    /\ moves' = [moves EXCEPT ![h] =
           [ IdleMove EXCEPT
               !.pc = "done",
               !.overlapped = moves[h].overlapped,
               !.stale = MoveUserBranch(users, referrers, moves[h].caller,
                             << moves[h].user_code, moves[h].new_sponsor_code,
                                ConfirmWord >>) # "moved" ]]
    /\ last' = Last("moveuser", moves[h].caller, "moved", moves[h].user_code)
    /\ UNCHANGED << referrers, enumVars, envVars, captureVars, tasks >>

(***************************************************************************)
(* Member analysis permission: is_admin and can_analyze_member.            *)
(***************************************************************************)
\* ADMIN_USER_IDS and ADMIN_IDS are unset in the deployment modelled
AdminIdsStr == << >>

is_admin(user_id) ==
    IF AdminIdsStr = << >> THEN FALSE
    ELSE user_id \in ParseOwnerIds(AdminIdsStr)

\* depth > 20 in is_descendant
MaxDescendantDepth == 20

RECURSIVE is_descendant(_, _, _, _, _)
\* the loop returns True at the first referral that is the descendant or whose
\* own code leads to it; which one is first does not change the answer
is_descendant(U, R, ancestor_code, descendant_id, depth) ==
    IF depth > MaxDescendantDepth THEN FALSE
    ELSE \E ref_id \in { u \in DOMAIN U : U[u].sponsor_code = ancestor_code } :
            \/ ref_id = descendant_id
            \/ /\ RowsByOwner(R, ref_id) # {}
               /\ is_descendant(U, R, FetchOne(RowsByOwner(R, ref_id)).ref_code,
                                descendant_id, depth + 1)

can_analyze_member(U, R, analyzer_id, target_code) ==
    IF is_owner(analyzer_id) THEN TRUE
    ELSE IF is_admin(analyzer_id) THEN TRUE
    ELSE IF RowsByCode(R, target_code) = {} THEN FALSE
    ELSE IF RowsByOwner(R, analyzer_id) = {} THEN FALSE
    ELSE is_descendant(U, R, FetchOne(RowsByOwner(R, analyzer_id)).ref_code,
                       FetchOne(RowsByCode(R, target_code)).owner_telegram_id, 0)

(***************************************************************************)
(* Read-only queries.                                                      *)
(***************************************************************************)
\* SELECT COUNT(*) FROM users WHERE sponsor_code = ref_code
TeamSize(U, ref_code) ==
    Cardinality({ u \in DOMAIN U : U[u].sponsor_code = ref_code })

\* faulty variant of the operator below: the join has lost its WHERE clause
GetTeamStatsJoinAll(U, R, ref_code) ==
    [ total_team |-> TeamSize(U, ref_code),
      team_with_links |->
          Cardinality({ p \in (DOMAIN U) \X R : p[1] = p[2].owner_telegram_id }),
      team_step1_confirmed |->
          Cardinality({ u \in DOMAIN U :
                          U[u].sponsor_code = ref_code /\ U[u].step1_confirmed }) ]

get_team_stats(U, R, ref_code) ==
    [ total_team |-> TeamSize(U, ref_code),
      team_with_links |->
          Cardinality({ p \in (DOMAIN U) \X R :
                          /\ p[1] = p[2].owner_telegram_id
                          /\ U[p[1]].sponsor_code = ref_code }),
      team_step1_confirmed |->
          Cardinality({ u \in DOMAIN U :
                          U[u].sponsor_code = ref_code /\ U[u].step1_confirmed }) ]

\* get_personal_stats: int((active_members / visitors * 100)) if visitors > 0
\* else 0.  For visitors below 50 the double product truncates to the integer
\* quotient (the first pair that does not is 29 of 50, which gives 57).
ConversionRate(active_members, visitors) ==
    IF visitors > 0 THEN (active_members * 100) \div visitors ELSE 0

\* the groups of: SELECT ... FROM users WHERE sponsor_code IS NOT NULL
\*                GROUP BY sponsor_code HAVING COUNT(*) > size
LargerGroups(U, size) ==
    { c \in { U[u].sponsor_code : u \in DOMAIN U } :
        c # NULL /\ TeamSize(U, c) > size }

\* faulty variant of the operator below: round() in the place of int()
PercentileRounded(rank, total_affiliates) ==
    IF total_affiliates > 0
    THEN (2 * rank * 100 + total_affiliates) \div (2 * total_affiliates)
    ELSE 0

\* int((rank / total_affiliates * 100)) if total_affiliates > 0 else 0; the
\* double product truncates to the integer quotient for total_affiliates
\* below 20 (the first pair that does not is 23 of 20, which gives 114)
Percentile(rank, total_affiliates) ==
    IF total_affiliates > 0 THEN (rank * 100) \div total_affiliates ELSE 0

get_user_rank(U, R, user_id) ==
    IF RowsByOwner(R, user_id) = {}
    THEN [rank |-> 0, total |-> 0, percentile |-> 0, team_size |-> 0]
    ELSE LET user_ref_code == FetchOne(RowsByOwner(R, user_id)).ref_code
             user_team_size == TeamSize(U, user_ref_code)
             rank == Cardinality(LargerGroups(U, user_team_size)) + 1
             total_affiliates == Cardinality({ r.ref_code : r \in R }) IN
         [ rank |-> rank,
           total |-> total_affiliates,
           percentile |-> Percentile(rank, total_affiliates),
           team_size |-> user_team_size ]

\* get_top10_stats.  all_teams: the groups of
\*   SELECT sponsor_code, COUNT(*) FROM users WHERE sponsor_code IS NOT NULL
\*   GROUP BY sponsor_code ORDER BY team_size DESC
AllTeams(U) == { c \in { U[u].sponsor_code : u \in DOMAIN U } : c # NULL }

\* max(1, int(len(all_teams) * 0.1)); the product truncates to len \div 10
Top10Count(U) ==
    IF Cardinality(AllTeams(U)) \div 10 > 1 THEN Cardinality(AllTeams(U)) \div 10 ELSE 1

\* all_teams[:top10_count]: the order among teams of equal size is not fixed
\* by the query, so every choice of largest teams is a possible slice
TopTeams(U) ==
    { S \in SUBSET AllTeams(U) :
        /\ Cardinality(S) = Top10Count(U)
        /\ \A c \in S, d \in AllTeams(U) \ S : TeamSize(U, c) >= TeamSize(U, d) }

RECURSIVE TotalVisitors(_, _)
TotalVisitors(U, teams) ==
    IF teams = {} THEN 0
    ELSE LET c == CHOOSE x \in teams : TRUE IN
         TeamSize(U, c) + TotalVisitors(U, teams \ {c})

RECURSIVE TotalMembers(_, _, _)
TotalMembers(U, R, teams) ==
    IF teams = {} THEN 0
    ELSE LET c == CHOOSE x \in teams : TRUE IN
         get_team_stats(U, R, c).team_with_links + TotalMembers(U, R, teams \ {c})

\* the results get_top10_stats can return
get_top10_stats(U, R) ==
    IF AllTeams(U) = {}
    THEN { [top10_visitors |-> 0, top10_members |-> 0] }
    ELSE { [ top10_visitors |-> TotalVisitors(U, S) \div Top10Count(U),
             top10_members |-> TotalMembers(U, R, S) \div Top10Count(U) ] :
           S \in TopTeams(U) }

\* get_average_stats: the sums run over every row of referrers; int() of a
\* quotient of non-negative numbers is the integer quotient
get_average_stats(U, R) ==
    LET all_refs == { r.ref_code : r \in R }
        total_visitors == TotalVisitors(U, all_refs)
        total_members == TotalMembers(U, R, all_refs)
        count == Cardinality(R) IN
    IF all_refs = {}
    THEN [ avg_visitors |-> 0, avg_members |-> 0, avg_conversion |-> 0 ]
    ELSE [ avg_visitors |-> IF count > 0 THEN total_visitors \div count ELSE 0,
           avg_members |-> IF count > 0 THEN total_members \div count ELSE 0,
           avg_conversion |-> ConversionRate(total_members, total_visitors) ]

\* the "vs Average" line of show_member_analysis for the node of member_id:
\* stats["active_members"] / avg_stats["avg_members"] is evaluated whenever
\* the member is above the average, and raises ZeroDivisionError when the
\* average is 0
VsAverage(U, R, member_id) ==
    LET ref_code == FetchOne(get_referrer_by_owner(R, member_id)).ref_code
        active_members == get_team_stats(U, R, ref_code).team_with_links
        avg_members == get_average_stats(U, R).avg_members IN
    IF active_members > avg_members
    THEN IF avg_members = 0 THEN "ZeroDivisionError" ELSE "above_average"
    ELSE "below_average"

(***************************************************************************)
(* moveuser_cmd.count_downline, the count of the reassignment preview.     *)
(* The set `seen` is one object shared by all the calls of a count: a call *)
(* returns its count and the set as it leaves it.                          *)
(***************************************************************************)
RECURSIVE SortedRefCodes(_, _, _)
\* SELECT r.ref_code FROM users u JOIN referrers r
\*   ON u.telegram_user_id = r.owner_telegram_id WHERE u.sponsor_code = code,
\* the rows of `members` in telegram_user_id order
SortedRefCodes(U, R, members) ==
    IF members = {} THEN << >>
    ELSE LET m == CHOOSE x \in members : \A y \in members : x <= y IN
         << FetchOne(RowsByOwner(R, m)).ref_code >> \o SortedRefCodes(U, R, members \ {m})

JoinedRefs(U, R, sponsor_code) ==
    SortedRefCodes(U, R, { u \in DOMAIN U : /\ U[u].sponsor_code = sponsor_code
                                            /\ RowsByOwner(R, u) # {} })

RECURSIVE count_downline(_, _, _, _, _)
RECURSIVE CountDownlineLoop(_, _, _, _, _)
\* "for ref in direct_refs: count += count_downline(ref, depth + 1, ...)"
CountDownlineLoop(U, R, direct_refs, depth, seen_codes) ==
    IF direct_refs = << >> THEN [ count |-> 0, seen |-> seen_codes ]
    ELSE LET first == count_downline(U, R, Head(direct_refs), depth + 1, seen_codes)
             rest == CountDownlineLoop(U, R, Tail(direct_refs), depth, first.seen) IN
         [ count |-> first.count + rest.count, seen |-> rest.seen ]

count_downline(U, R, sponsor_code, depth, seen_codes) ==
    IF depth > MaxDepth \/ sponsor_code \in seen_codes
    THEN [ count |-> 0, seen |-> seen_codes ]
    ELSE LET direct_refs == JoinedRefs(U, R, sponsor_code)
             below == CountDownlineLoop(U, R, direct_refs, depth,
                                        seen_codes \cup {sponsor_code}) IN
         [ count |-> Len(direct_refs) + below.count, seen |-> below.seen ]

(***************************************************************************)
(* Progress tracking.                                                      *)
(***************************************************************************)
ProgressActions == { "visited_sharing", "shared_invite", "visited_member_tools" }

\* the words mark_progress_action is called with: the three columns and the
\* two words of on_progress_click, which match no branch
MarkWords == ProgressActions \cup { "step1_confirmed", "step2_confirmed" }

\* faulty variant of the operator below: the UPDATE rewrites all three columns
MarkProgressActionSetOnly(U, id, action) ==
    IF ~HasRow(U, id) \/ action \notin ProgressActions THEN U
    ELSE [U EXCEPT ![id].progress_visited_sharing = (action = "visited_sharing"),
                   ![id].progress_shared_invite = (action = "shared_invite"),
                   ![id].progress_visited_member_tools = (action = "visited_member_tools")]

\* mark_progress_action: UPDATE users SET <column> = 1 WHERE telegram_user_id = id
mark_progress_action(U, id, action) ==
    IF ~HasRow(U, id) THEN U
    ELSE IF action = "visited_sharing"
         THEN [U EXCEPT ![id].progress_visited_sharing = TRUE]
    ELSE IF action = "shared_invite"
         THEN [U EXCEPT ![id].progress_shared_invite = TRUE]
    ELSE IF action = "visited_member_tools"
         THEN [U EXCEPT ![id].progress_visited_member_tools = TRUE]
    ELSE U

\* has_team_member_with_links: the join of users and referrers on the code
\* of user_id is not empty
has_team_member_with_links(U, R, user_id) ==
    IF get_referrer_by_owner(R, user_id) = {} THEN FALSE
    ELSE get_team_stats(U, R,
             FetchOne(get_referrer_by_owner(R, user_id)).ref_code).team_with_links > 0

Bit(b) == IF b THEN 1 ELSE 0

\* faulty variant of the operator below: steps 1 and 2 wait for the stored
\* confirmations
CompletedStagesByConfirmation(U, R, user_id) ==
    LET progress == get_user_progress(U, user_id)
        has_links == get_referrer_by_owner(R, user_id) # {} IN
    Bit(HasRow(U, user_id) /\ U[user_id].step1_confirmed)
      + Bit(HasRow(U, user_id) /\ U[user_id].step2_warning_ack)
      + Bit(has_links)
      + Bit(progress.visited_sharing) + Bit(progress.shared_invite)
      + Bit(progress.visited_member_tools)
      + Bit(has_team_member_with_links(U, R, user_id))

\* the number of stages calculate_progress_percentage counts as completed
CompletedStages(U, R, user_id) ==
    LET progress == get_user_progress(U, user_id)
        has_links == get_referrer_by_owner(R, user_id) # {} IN
    (IF has_links THEN 2 ELSE 0) + Bit(has_links)
      + Bit(progress.visited_sharing) + Bit(progress.shared_invite)
      + Bit(progress.visited_member_tools)
      + Bit(has_team_member_with_links(U, R, user_id))

TotalStages == 7

\* int((completed / total) * 100); for completed in 0..7 the double product
\* truncates to the integer quotient (0 14 28 42 57 71 85 100)
calculate_progress_percentage(U, R, user_id) ==
    (CompletedStages(U, R, user_id) * 100) \div TotalStages

\* faulty variant of the operator below: the visit is recorded whether or not
\* the user has links
MenuAffiliateToolsNoLinks(u) ==
    LET progress == get_user_progress(users, u)
        marks == ~progress.visited_sharing IN
    /\ marks => CanCreateTask(tasks, u, 4)
    /\ users' = IF marks THEN mark_progress_action(users, u, "visited_sharing") ELSE users
    /\ tasks' = IF marks THEN CreateTask(tasks, u, 4) ELSE tasks
    /\ last' = Last("visited_sharing", u, IF marks THEN "marked" ELSE "shown", NULL)
    /\ UNCHANGED << referrers, enumVars, envVars, captureVars, moves >>

\* menu:affiliate_tools
MenuAffiliateTools(u) ==
    LET progress == get_user_progress(users, u)
        has_links == get_referrer_by_owner(referrers, u) # {}
        marks == ~progress.visited_sharing /\ has_links IN
    /\ marks => CanCreateTask(tasks, u, 4)
    /\ users' = IF marks THEN mark_progress_action(users, u, "visited_sharing") ELSE users
    /\ tasks' = IF marks THEN CreateTask(tasks, u, 4) ELSE tasks
    /\ last' = Last("visited_sharing", u, IF marks THEN "marked" ELSE "shown", NULL)
    /\ UNCHANGED << referrers, enumVars, envVars, captureVars, moves >>

\* affiliate:share_invite
AffiliateShareInvite(u) ==
    LET progress == get_user_progress(users, u)
        has_links == get_referrer_by_owner(referrers, u) # {}
        marks == has_links /\ ~progress.shared_invite /\ progress.visited_sharing IN
    /\ marks => CanCreateTask(tasks, u, 5)
    /\ users' = IF marks THEN mark_progress_action(users, u, "shared_invite") ELSE users
    /\ tasks' = IF marks THEN CreateTask(tasks, u, 5) ELSE tasks
    /\ last' = Last("shared_invite", u,
                    IF ~has_links THEN "locked" ELSE IF marks THEN "marked" ELSE "shown",
                    NULL)
    /\ UNCHANGED << referrers, enumVars, envVars, captureVars, moves >>

\* mystats:<any>
MyStatsClick(u) ==
    LET progress == get_user_progress(users, u)
        has_links == get_referrer_by_owner(referrers, u) # {}
        marks == has_links /\ ~progress.visited_member_tools IN
    /\ marks => CanCreateTask(tasks, u, 6)
    /\ users' = IF marks THEN mark_progress_action(users, u, "visited_member_tools") ELSE users
    /\ tasks' = IF marks THEN CreateTask(tasks, u, 6) ELSE tasks
    /\ last' = Last("visited_member_tools", u,
                    IF ~has_links THEN "locked" ELSE IF marks THEN "marked" ELSE "shown",
                    NULL)
    /\ UNCHANGED << referrers, enumVars, envVars, captureVars, moves >>

\* the names show_progress_tracker has bound when it reaches "Determine next
\* action": its parameters and the locals assigned above that line; the
\* module binds neither step1_confirmed nor step2_confirmed
TrackerBoundNames ==
    { "query", "context", "content", "user_id", "progress", "percentage", "ref",
      "has_links", "visited_sharing", "shared_invite", "visited_member_tools",
      "has_team", "filled", "empty", "progress_bar", "title", "progress_text",
      "steps_text", "current_marker" }

\* how show_progress_tracker ends: at 100 % it sends the completion message
\* and returns; below, "if not step1_confirmed and not has_links" reads
\* step1_confirmed first
show_progress_tracker(U, R, user_id) ==
    IF calculate_progress_percentage(U, R, user_id) >= 100 THEN "rendered"
    ELSE IF "step1_confirmed" \notin TrackerBoundNames THEN "NameError"
    ELSE "rendered"

\* progress:view
ProgressView(u) ==
    /\ last' = Last("progress_view", u, show_progress_tracker(users, referrers, u), NULL)
    /\ UNCHANGED << storeVars, enumVars, envVars, captureVars, tasks, moves >>

\* progress:confirm_step1 / progress:confirm_step2
ProgressConfirm(u, word) ==
    /\ CanCreateTask(tasks, u, IF word = "step1_confirmed" THEN 1 ELSE 2)
    /\ users' = mark_progress_action(users, u, word)
    /\ tasks' = CreateTask(tasks, u, IF word = "step1_confirmed" THEN 1 ELSE 2)
    /\ last' = Last(word, u, show_progress_tracker(users', referrers, u), NULL)
    /\ UNCHANGED << referrers, enumVars, envVars, captureVars, moves >>

(***************************************************************************)
(* show_member_list.get_all_downline, one step per loop iteration.         *)
(*   stack : the active calls, innermost last; a call is its sponsor_code, *)
(*           its depth and the direct_refs the loop has not visited yet    *)
(*   seen  : seen_codes, shared by all calls                               *)
(*   out   : the members appended so far, in the order of the result       *)
(***************************************************************************)
RECURSIVE SortedSeq(_)
\* the rows of a table scan on users come in telegram_user_id order
SortedSeq(S) ==
    IF S = {} THEN << >>
    ELSE LET m == CHOOSE x \in S : \A y \in S : x <= y IN
         << m >> \o SortedSeq(S \ {m})

\* SELECT telegram_user_id FROM users WHERE sponsor_code = sponsor_code
DirectRefs(U, sponsor_code) ==
    SortedSeq({ u \in DOMAIN U : U[u].sponsor_code = sponsor_code })

\* faulty variant of the operator below: no visited set
SeenBeforeNever(code, seen_codes) == FALSE

\* sponsor_code in seen_codes / member_code in seen_codes
SeenBefore(code, seen_codes) == code \in seen_codes

\* entry of get_all_downline(sponsor_code, depth): the two guards, then the
\* query for the direct referrals
EnterCall(U, stk, sn, sponsor_code, depth) ==
    IF depth > MaxDepth \/ SeenBefore(sponsor_code, sn)
    THEN [stack |-> stk, seen |-> sn]
    ELSE [ stack |-> Append(stk, [ code |-> sponsor_code, depth |-> depth,
                                   pending |-> DirectRefs(U, sponsor_code) ]),
           seen |-> sn \cup {sponsor_code} ]

\* show_member_list up to the first call of get_all_downline
ShowMemberList(u) ==
    /\ epc = "idle"
    /\ IF get_referrer_by_owner(referrers, u) = {}
       THEN /\ epc' = "done"
            /\ UNCHANGED << stack, seen, out >>
       ELSE /\ epc' = "run"
            /\ stack' = EnterCall(users, << >>, {},
                            FetchOne(get_referrer_by_owner(referrers, u)).ref_code, 0).stack
            /\ seen' = EnterCall(users, << >>, {},
                            FetchOne(get_referrer_by_owner(referrers, u)).ref_code, 0).seen
            /\ out' = << >>
    /\ last' = Last("member_list", u, "called", NULL)
    /\ UNCHANGED << storeVars, envVars, captureVars, tasks, moves >>

Top == stack[Len(stack)]

\* one iteration of "for ref_row in direct_refs"
VisitMember ==
    /\ epc = "run"
    /\ stack # << >>
    /\ Top.pending # << >>
    /\ LET member_id == Head(Top.pending)
           rest == [stack EXCEPT ![Len(stack)].pending = Tail(Top.pending)]
           member_ref == RowsByOwner(referrers, member_id) IN
       IF member_ref # {} /\ ~SeenBefore(FetchOne(member_ref).ref_code, seen)
       THEN /\ out' = Append(out, [ code |-> FetchOne(member_ref).ref_code,
                                    telegram_id |-> member_id,
                                    depth |-> Top.depth + 1 ])
            /\ stack' = EnterCall(users, rest, seen,
                            FetchOne(member_ref).ref_code, Top.depth + 1).stack
            /\ seen' = EnterCall(users, rest, seen,
                            FetchOne(member_ref).ref_code, Top.depth + 1).seen
       ELSE /\ stack' = rest
            /\ UNCHANGED << seen, out >>
    /\ UNCHANGED << epc, last, storeVars, envVars, captureVars, tasks, moves >>

\* "return all_members" of the innermost call
ReturnCall ==
    /\ epc = "run"
    /\ stack # << >>
    /\ Top.pending = << >>
    /\ stack' = SubSeq(stack, 1, Len(stack) - 1)
    /\ epc' = IF Len(stack) = 1 THEN "done" ELSE "run"
    /\ UNCHANGED << seen, out, last, storeVars, envVars, captureVars, tasks, moves >>

(***************************************************************************)
(* Specifications.                                                         *)
(***************************************************************************)
EnumIdle ==
    /\ epc = "idle"
    /\ stack = << >>
    /\ seen = {}
    /\ out = << >>

\* the store of a fresh deployment: db_init has created two empty tables
Init ==
    /\ users = << >>
    /\ referrers = {}
    /\ last = Last("init", 0, "none", NULL)
    /\ EnumIdle
    /\ owner_ids_str = OwnerIdsStr
    /\ tasks = NoTasks
    /\ moves = NoMoves
    /\ user_data = NoUserData
    /\ links = NoLinks

\* a caller who is no owner is refused whatever the arguments are
MoveUserArgsOf(caller) ==
    IF is_owner(caller) THEN MoveUserArgs
    ELSE { << GenerateRefCode(Draw(1), RefCodeLength),
              GenerateRefCode(Draw(2), RefCodeLength), ConfirmWord >> }

ResetUserCodesOf(caller) ==
    IF is_owner(caller) THEN Codes \cup { NULL, Lower(GenerateRefCode(Draw(1), RefCodeLength)) }
    ELSE { GenerateRefCode(Draw(1), RefCodeLength) }

ResetUserTokensOf(caller) ==
    IF is_owner(caller) THEN { NULL, ConfirmWord } ELSE { ConfirmWord }

\* the handlers that write a sponsor code or a node
NextGraph ==
    \/ \E u \in Ids : RegisterAffiliate(u)
    \/ \E u \in Ids, arg \in StartArgs : Start(u, arg)
    \/ \E u \in Ids, arg \in ResetArgs : Reset(u, arg)
    \/ \E caller \in Ids :
           \E code \in ResetUserCodesOf(caller), token \in ResetUserTokensOf(caller) :
               ResetUser(caller, code, token)
    \/ \E caller \in Ids : \E args \in MoveUserArgsOf(caller) : MoveUser(caller, args)

\* ... and the one that writes a confirmation flag of a row
Next ==
    \/ NextGraph
    \/ \E u \in Ids : JoinConfirmStep1(u)

Spec == Init /\ [][Next]_vars

\* the handlers every user can reach: link capture, /start, /reset, join
NextUsers ==
    \/ \E u \in Ids : RegisterAffiliate(u)
    \/ \E u \in Ids, arg \in StartArgs : Start(u, arg)
    \/ \E u \in Ids, arg \in ResetArgs : Reset(u, arg)
    \/ \E u \in Ids : JoinConfirmStep1(u)

SpecUsers == Init /\ [][NextUsers]_vars

\* without join:confirm_step1 every row keeps step1_confirmed = 0; the rows it
\* inserts are the rows /start without a payload inserts
SpecGraph == Init /\ [][NextGraph]_vars

\* The link capture of two users, with /start and /reset confirm between the
\* texts.
LinkUsers == { 1, 2 }

InitLinks ==
    /\ users = << >>
    /\ referrers = {}
    /\ last = Last("init", 0, "none", NULL)
    /\ EnumIdle
    /\ owner_ids_str = OwnerIdsStr
    /\ tasks = NoTasks
    /\ moves = NoMoves
    /\ user_data = [u \in LinkUsers |-> EmptyUserData]
    /\ links = NoLinks

NextLinks ==
    \/ \E u \in LinkUsers : OnRefClickReady(u)
    \/ \E u \in LinkUsers : SetLinksClick(u)
    \/ \E u \in LinkUsers, msg \in Messages : OnTextMessage(u, msg, Draw(u))
    \/ \E u \in LinkUsers : Start(u, NULL)
    \/ \E u \in LinkUsers : Reset(u, ConfirmWord)

SpecLinks == InitLinks /\ [][NextLinks]_vars

\* The progress tracker next to the graph.  A forest in which a member can
\* be moved away from its sponsor has three nodes: here the link capture of
\* identity u ends with the u-th sampled code.  The commands are given
\* well-formed arguments and the confirmation word by an owner, and the
\* menus that mark progress are clicked by one ordinary user.
ForestCodes == { GenerateRefCode(Draw(u), RefCodeLength) : u \in Ids }

Trackers == { 2 }

NextProgress ==
    \/ \E u \in Ids : RegisterDraw(u, Draw(u))
    \/ \E u \in Ids, arg \in ForestCodes : Start(u, arg)
    \/ \E u \in Trackers : MenuAffiliateTools(u)
    \/ \E u \in Trackers : AffiliateShareInvite(u)
    \/ \E u \in Trackers : MyStatsClick(u)
    \/ \E u \in Trackers, word \in MarkWords \ ProgressActions : ProgressConfirm(u, word)
    \/ \E u \in Ids : Reset(u, ConfirmWord)
    \/ \E caller \in OwnerUserIds, code \in ForestCodes :
           ResetUser(caller, code, ConfirmWord)
    \/ \E caller \in OwnerUserIds, a \in ForestCodes, b \in ForestCodes :
           \/ MoveUser(caller, << a, b, ConfirmWord >>)
           \/ MoveUser(caller, << a, b >>)

SpecProgress == Init /\ [][NextProgress]_vars

\* Invited users on their way to the join menu.
NextJoin ==
    \/ \E u \in Ids : RegisterDraw(u, Draw(u))
    \/ \E u \in Ids, arg \in ForestCodes : Start(u, arg)
    \/ \E u \in Ids : JoinConfirmSponsorYes(u)
    \/ \E u \in Ids : MenuJoin(u)

SpecJoin == Init /\ [][NextJoin]_vars

\* The celebrations of the tracked user are counted.  The tracked user sends
\* /start without a payload, the users after it send /start with its code,
\* all of them save links by either order of the two URLs, and the tracked
\* user clicks the menus that mark progress and the two confirmation buttons
\* of the tracker.  Nobody is reset.
Invitees == { u \in Ids : \A t \in Trackers : u > t }

WatchedTasks == { << u, step >> : u \in Trackers, step \in 1..TotalStages }

InitCelebrate ==
    /\ users = << >>
    /\ referrers = {}
    /\ last = Last("init", 0, "none", NULL)
    /\ EnumIdle
    /\ owner_ids_str = OwnerIdsStr
    /\ tasks = [k \in WatchedTasks |-> 0]
    /\ moves = NoMoves
    /\ user_data = NoUserData
    /\ links = NoLinks

NextCelebrate ==
    \/ \E u \in Trackers \cup Invitees : RegisterDraw(u, Draw(u))
    \/ \E u \in Trackers \cup Invitees : SaveLinksStep2Last(u, Draw(u))
    \/ \E u \in Trackers : Start(u, NULL)
    \/ \E u \in Invitees, t \in Trackers :
           Start(u, GenerateRefCode(Draw(t), RefCodeLength))
    \/ \E u \in Trackers : MenuAffiliateTools(u)
    \/ \E u \in Trackers : AffiliateShareInvite(u)
    \/ \E u \in Trackers : MyStatsClick(u)
    \/ \E u \in Trackers, word \in MarkWords \ ProgressActions : ProgressConfirm(u, word)
    \/ \E u \in Trackers : ProgressView(u)

SpecCelebrate == InitCelebrate /\ [][NextCelebrate]_vars

\* /moveuser updates in flight together: the owners send confirmed moves
\* with well-formed codes, the handlers resume in any order, and the forest
\* they work on is built by the link capture and /start.
NextMoves ==
    \/ \E u \in Ids : RegisterDraw(u, Draw(u))
    \/ \E u \in Ids, arg \in ForestCodes : Start(u, arg)
    \/ \E h \in Handlers, caller \in OwnerUserIds, a \in ForestCodes, b \in ForestCodes :
           MoveUserValidate(h, caller, << a, b, ConfirmWord >>)
    \/ \E h \in Handlers : MoveUserResume(h)

SpecMoves == Init /\ [][NextMoves]_vars

\* One sponsor and its team: identities 1 to 3 go through the link capture
\* (identity u ends with the u-th sampled code), identities 2 to NumTeamIds
\* open the invite link of identity 1 or of identity 2.
TeamIds == 1..NumTeamIds

TeamCodes == { GenerateRefCode(Draw(u), RefCodeLength) : u \in 1..3 }

NextTeam ==
    \/ \E u \in 1..3 : RegisterDraw(u, Draw(u))
    \/ \E u \in TeamIds \ {1}, i \in 1..2 :
           Start(u, GenerateRefCode(Draw(i), RefCodeLength))

SpecTeam == Init /\ [][NextTeam]_vars

\* Deployments that differ in OWNER_USER_IDS: unset, "1", and " 2,x".  Every
\* identity sends /moveuser, with and without the confirmation word.
OwnerEnvs ==
    { << >>,
      << << "1" >> >>,
      << << " ", "2" >>, << "x" >> >> }

InitOwners ==
    /\ users = << >>
    /\ referrers = {}
    /\ last = Last("init", 0, "none", NULL)
    /\ EnumIdle
    /\ owner_ids_str \in OwnerEnvs
    /\ tasks = NoTasks
    /\ moves = NoMoves
    /\ user_data = NoUserData
    /\ links = NoLinks

NextOwners ==
    \/ \E u \in Ids : RegisterAffiliate(u)
    \/ \E u \in Ids, arg \in Codes : Start(u, arg)
    \/ \E caller \in Ids, a \in Codes, b \in Codes :
           \/ MoveUser(caller, << a, b, ConfirmWord >>)
           \/ MoveUser(caller, << a, b >>)

SpecOwners == InitOwners /\ [][NextOwners]_vars

\* Long sponsor chains.  The store holds the chain identity 1 <- 2 <- ... <- n
\* (every identity owns a node, identity u + 1 came through the invite link
\* of identity u), and identity 1 has no row (k = -1), a row without sponsor
\* (k = 0) or is sponsored by the node of identity k, which closes a cycle
\* of k nodes.  These are stores the
\* link capture, /start and /moveuser build; the handlers that run on them
\* here are the member list and its traversal.
ChainIds == 1..NumChainIds

ChainCode(i) == GenerateRefCode(Draw(i), RefCodeLength)

ChainCodes == { ChainCode(i) : i \in ChainIds }

ChainUsers(n, k) ==
    [ u \in (2..n) \cup (IF k < 0 THEN {} ELSE {1}) |->
        NewUserRow(IF u > 1 THEN ChainCode(u - 1)
                   ELSE IF k = 0 THEN NULL ELSE ChainCode(k)) ]

ChainReferrers(n) == { ReferrerRow(ChainCode(i), i) : i \in 1..n }

InitChain ==
    /\ \E n \in ChainIds : \E k \in {-1, 0, 1, n} :
           /\ users = ChainUsers(n, k)
           /\ referrers = ChainReferrers(n)
    /\ last = Last("init", 0, "none", NULL)
    /\ EnumIdle
    /\ owner_ids_str = OwnerIdsStr
    /\ tasks = NoTasks
    /\ moves = NoMoves
    /\ user_data = NoUserData
    /\ links = NoLinks

NextChain ==
    \/ \E u \in ChainIds : ShowMemberList(u)
    \/ VisitMember
    \/ ReturnCall

SpecChain == InitChain /\ [][NextChain]_vars

\* every store the two tables can hold with one node per owner: the rows of
\* users any handler writes (the two confirmation columns, which the traversal
\* does not read, at 0), the rows of referrers upsert_referrer writes
UserRows == { NewUserRow(c) : c \in Codes \cup {NULL} }

AllUsers == UNION { [S -> UserRows] : S \in SUBSET Ids }

AllReferrers ==
    { R \in SUBSET { ReferrerRow(c, o) : c \in Codes, o \in Ids } :
        \A r1 \in R, r2 \in R :
            (r1.ref_code = r2.ref_code \/ r1.owner_telegram_id = r2.owner_telegram_id)
                => r1 = r2 }

InitEnum ==
    /\ users \in AllUsers
    /\ referrers \in AllReferrers
    /\ last = Last("init", 0, "none", NULL)
    /\ EnumIdle
    /\ owner_ids_str = OwnerIdsStr
    /\ tasks = NoTasks
    /\ moves = NoMoves
    /\ user_data = NoUserData
    /\ links = NoLinks

NextEnum ==
    \/ \E u \in Ids : ShowMemberList(u)
    \/ VisitMember
    \/ ReturnCall

\* get_all_downline is plain synchronous code: once called it runs on
SpecEnum == InitEnum /\ [][NextEnum]_vars /\ WF_vars(NextEnum)

(***************************************************************************)
(* The vocabulary of the properties: the sponsorship graph over the nodes. *)
(***************************************************************************)
OwnerOf(R, code) == FetchOne(RowsByCode(R, code)).owner_telegram_id

\* the code of the node above the node `code`: the sponsor code of its owner,
\* when that is the code of a node; NULL when there is none
ParentCode(U, R, code) ==
    IF RowsByCode(R, code) = {} THEN NULL
    ELSE IF ~HasRow(U, OwnerOf(R, code)) THEN NULL
    ELSE IF RowsByCode(R, U[OwnerOf(R, code)].sponsor_code) = {} THEN NULL
    ELSE U[OwnerOf(R, code)].sponsor_code

RECURSIVE ChainRevisits(_, _, _, _)
\* does the sponsor chain above `code` come back to a node of `visited`
ChainRevisits(U, R, code, visited) ==
    IF ParentCode(U, R, code) = NULL THEN FALSE
    ELSE IF ParentCode(U, R, code) \in visited THEN TRUE
    ELSE ChainRevisits(U, R, ParentCode(U, R, code),
                       visited \cup {ParentCode(U, R, code)})

Acyclic(U, R) ==
    \A r \in R : ~ChainRevisits(U, R, r.ref_code, {r.ref_code})

\* the participants whose sponsor code is one of `codes`
MembersOf(U, codes) == { u \in DOMAIN U : U[u].sponsor_code \in codes }

CodesOwnedBy(R, ids) == { r.ref_code : r \in { x \in R : x.owner_telegram_id \in ids } }

RECURSIVE DownlineCodes(_, _, _)
\* `codes` and the codes of every node transitively referred by them
DownlineCodes(U, R, codes) ==
    IF CodesOwnedBy(R, MembersOf(U, codes)) \subseteq codes THEN codes
    ELSE DownlineCodes(U, R, codes \cup CodesOwnedBy(R, MembersOf(U, codes)))

\* the downline of a node: every participant transitively referred by it
Downline(U, R, code) == MembersOf(U, DownlineCodes(U, R, {code}))

(***************************************************************************)
(* C1.  After any sequence of operations no node is its own ancestor: the  *)
(* sponsor chain above every node ends without revisiting a node.          *)
(***************************************************************************)
C1_NoNodeIsItsOwnAncestor == Acyclic(users, referrers)

(***************************************************************************)
(* C2.  A confirmed /moveuser A B by an owner, A and B codes of nodes,     *)
(* with B's owner in the downline of A, is rejected as a circular          *)
(* reference and leaves every sponsorship edge as it was.                  *)
(***************************************************************************)
MoveIntoDownline(args) ==
    /\ Len(args) = 3
    /\ Upper(args[3]) = ConfirmWord
    /\ Upper(args[1]) # Upper(args[2])
    /\ RowsByCode(referrers, Upper(args[1])) # {}
    /\ RowsByCode(referrers, Upper(args[2])) # {}
    /\ OwnerOf(referrers, Upper(args[2])) \in Downline(users, referrers, Upper(args[1]))

C2_MoveIntoDownlineRejected ==
    [][ \A caller \in OwnerUserIds : \A args \in MoveUserArgs :
            (MoveIntoDownline(args) /\ MoveUser(caller, args))
                => (last'.branch = "circular" /\ users' = users) ]_vars

(***************************************************************************)
(* C3.  recordSponsorship is first-write-wins: a /start by an identity     *)
(* whose sponsor code is set, with another code, the same code or none,    *)
(* leaves its sponsor code and every other stored field unchanged.         *)
(***************************************************************************)
C3_FirstWriteWins ==
    [][ (/\ last'.op = "start"
         /\ HasRow(users, last'.uid)
         /\ users[last'.uid].sponsor_code # NULL)
            => (users' = users /\ referrers' = referrers) ]_vars

\* a /start with another code has just left a set sponsor code, and a
\* confirmed step 1, as they were
C3_Witness ==
    /\ last.op = "start"
    /\ last.branch = "keep"
    /\ last.code # NULL
    /\ HasRow(users, last.uid)
    /\ users[last.uid].sponsor_code # NULL
    /\ users[last.uid].sponsor_code # last.code
    /\ users[last.uid].step1_confirmed

(***************************************************************************)
(* C4.  As claimed: without a sponsor reassignment a sponsor code, once    *)
(* set, never changes and never returns to null, no participant record     *)
(* holding one is removed.                                                 *)
(***************************************************************************)
KeepsSponsor(u) ==
    /\ HasRow(users', u)
    /\ users'[u].sponsor_code = users[u].sponsor_code

C4_SponsorNeverLost ==
    [][ \A u \in Ids :
            (HasRow(users, u) /\ users[u].sponsor_code # NULL /\ last'.op # "moveuser")
                => KeepsSponsor(u) ]_vars

(***************************************************************************)
(* C4, amended.  Without a sponsor reassignment and without a reset of the *)
(* identity (its own /reset confirm, an owner's /resetuser of its code) a   *)
(* sponsor code, once set, never changes and never returns to null.        *)
(***************************************************************************)
ResetOf(u) ==
    \/ last'.op = "reset" /\ last'.uid = u
    \/ last'.op = "resetuser" /\ ReferrerRow(last'.code, u) \in referrers

C4_SponsorLostOnlyByReset ==
    [][ \A u \in Ids :
            (/\ HasRow(users, u)
             /\ users[u].sponsor_code # NULL
             /\ last'.op # "moveuser"
             /\ ~ResetOf(u))
                => KeepsSponsor(u) ]_vars

\* somebody else's /reset confirm has just run and this identity still has
\* its sponsor code
C4_Witness ==
    /\ last.op = "reset"
    /\ last.branch = "done"
    /\ \E u \in Ids \ {last.uid} : HasRow(users, u) /\ users[u].sponsor_code # NULL

(***************************************************************************)
(* C5.  Immediately after registerAffiliate(i) has returned the code c,    *)
(* the lookup by owner i and the lookup by code c both return the node     *)
(* (c, i), and c is 6 characters drawn from A-Z and 0-9.                   *)
(***************************************************************************)
C5_RegisterThenLookup ==
    last.op = "register" =>
        /\ get_referrer_by_owner(referrers, last.uid) = {ReferrerRow(last.code, last.uid)}
        /\ get_referrer_by_code(referrers, last.code) = {ReferrerRow(last.code, last.uid)}
        /\ Len(last.code) = 6
        /\ \A k \in 1..Len(last.code) : last.code[k] \in Alphabet

\* a second node has just been created
C5_Witness ==
    /\ last.op = "register"
    /\ last.branch = "created"
    /\ ReferrerRow(last.code, last.uid) \in referrers
    /\ Cardinality(referrers) >= 2

(***************************************************************************)
(* C6.  The relation between codes and owners is one-to-one: no two nodes  *)
(* share a code and no identity owns more than one node.                   *)
(***************************************************************************)
C6_CodeOwnerOneToOne ==
    \A r1 \in referrers, r2 \in referrers :
        (r1.ref_code = r2.ref_code \/ r1.owner_telegram_id = r2.owner_telegram_id)
            => r1 = r2

\* an owner of a node has just gone through the link capture again, next to
\* another node
C6_Witness ==
    /\ last.op = "register"
    /\ last.branch = "existing"
    /\ Cardinality(referrers) >= 2

(***************************************************************************)
(* C7.  Every first contact of an identity without participant record,     *)
(* made with the code S, raises directCount(S) by one and changes no other *)
(* count; a repeated contact of an identity whose sponsor is set changes   *)
(* no count.  So N distinct first contacts with S make directCount(S) = N, *)
(* in whatever order and however often they are repeated.                  *)
(***************************************************************************)
DirectCount(U, R, code) == get_team_stats(U, R, code).total_team

C7_FirstContactsCounted ==
    [][ last'.op = "start" =>
          /\ (~HasRow(users, last'.uid) /\ last'.code # NULL) =>
                \A c \in Codes :
                    DirectCount(users', referrers', c) =
                        DirectCount(users, referrers, c) + (IF c = last'.code THEN 1 ELSE 0)
          /\ (HasRow(users, last'.uid) /\ users[last'.uid].sponsor_code # NULL) =>
                \A c \in Codes :
                    DirectCount(users', referrers', c) = DirectCount(users, referrers, c)
      ]_vars

\* the second first contact with the same code has just been counted
C7_Witness ==
    /\ last.op = "start"
    /\ last.branch = "insert"
    /\ last.code # NULL
    /\ DirectCount(users, referrers, last.code) >= 2

(***************************************************************************)
(* C8.  For every identity that owns a node, 1 <= rank <= totalNodes.      *)
(***************************************************************************)
C8_RankWithinTotal ==
    \A u \in Ids :
        RowsByOwner(referrers, u) # {} =>
            /\ 1 <= get_user_rank(users, referrers, u).rank
            /\ get_user_rank(users, referrers, u).rank
                   <= get_user_rank(users, referrers, u).total

(***************************************************************************)
(* C9.  rank is one plus the number of nodes whose directCount is greater  *)
(* than this node's; sponsor codes that belong to no node add nothing.     *)
(***************************************************************************)
NodesWithLargerTeam(U, R, code) ==
    { r \in R : TeamSize(U, r.ref_code) > TeamSize(U, code) }

C9_RankCountsNodesOnly ==
    \A r \in referrers :
        get_user_rank(users, referrers, r.owner_telegram_id).rank =
            Cardinality(NodesWithLargerTeam(users, referrers, r.ref_code)) + 1

(***************************************************************************)
(* C10.  fullDescendantEnumeration terminates on every store, a store with *)
(* a sponsorship cycle included, with a finite list: it enters no code     *)
(* twice, so the list is no longer than the number of nodes.               *)
(***************************************************************************)
C10_EnumerationTerminates ==
    <>(epc = "done" /\ Len(out) <= Cardinality(referrers))

\* the enumeration has ended on a store in which two nodes sponsor each
\* other, with the one member it found before it met the cycle
C10_Witness ==
    /\ epc = "done"
    /\ Len(out) = 1
    /\ ~Acyclic(users, referrers)
    /\ \E r1 \in referrers, r2 \in referrers :
           /\ r1 # r2
           /\ ParentCode(users, referrers, r1.ref_code) = r2.ref_code
           /\ ParentCode(users, referrers, r2.ref_code) = r1.ref_code

(***************************************************************************)
(* C11.  For every identity, the progress percentage never decreases over  *)
(* a step that marks a progress action, registers a node, records a new    *)
(* sponsorship or applies a confirmed reassignment of another member.      *)
(***************************************************************************)
GraphMutationOrMark ==
    \/ last'.op \in MarkWords \cup { "register", "start" }
    \/ last'.op = "moveuser" /\ last'.branch = "moved"

\* u is the member a confirmed /moveuser has just moved
MovedMember(u) ==
    /\ last'.op = "moveuser"
    /\ ReferrerRow(last'.code, u) \in referrers

C11_PercentageNeverDecreases ==
    [][ GraphMutationOrMark =>
          \A u \in Ids :
              ~MovedMember(u) =>
                  calculate_progress_percentage(users', referrers', u)
                      >= calculate_progress_percentage(users, referrers, u) ]_vars

(***************************************************************************)
(* C12.  A stored completion flag of an identity that is true stays true   *)
(* over every step that is not a confirmed /resetuser of that identity.    *)
(***************************************************************************)
FlagsOf(U, u) ==
    { a \in ProgressActions :
        \/ a = "visited_sharing" /\ get_user_progress(U, u).visited_sharing
        \/ a = "shared_invite" /\ get_user_progress(U, u).shared_invite
        \/ a = "visited_member_tools" /\ get_user_progress(U, u).visited_member_tools }

AdminResetOf(u) ==
    /\ last'.op = "resetuser"
    /\ last'.branch = "done"
    /\ ReferrerRow(last'.code, u) \in referrers

C12_FlagsStayTrue ==
    [][ \A u \in Ids :
            ~AdminResetOf(u) => FlagsOf(users, u) \subseteq FlagsOf(users', u) ]_vars

(***************************************************************************)
(* C13.  In every reachable store, for every identity and every word       *)
(* mark_progress_action is called with: marking twice gives the store      *)
(* marking once gives, no flag that is true becomes false, and the sponsor  *)
(* code, the other flags and the other identities' rows are as before.      *)
(***************************************************************************)
MarkedFlags(a) == IF a \in ProgressActions THEN {a} ELSE {}

C13_MarkIdempotentNeverClears ==
    \A u \in Ids, a \in MarkWords :
        LET once == mark_progress_action(users, u, a) IN
        /\ mark_progress_action(once, u, a) = once
        /\ DOMAIN once = DOMAIN users
        /\ \A v \in (DOMAIN users) \ {u} : once[v] = users[v]
        /\ FlagsOf(users, u) \subseteq FlagsOf(once, u)
        /\ FlagsOf(once, u) \subseteq FlagsOf(users, u) \cup MarkedFlags(a)
        /\ HasRow(users, u) =>
              /\ FlagsOf(once, u) = FlagsOf(users, u) \cup MarkedFlags(a)
              /\ once[u].sponsor_code = users[u].sponsor_code
              /\ once[u].step1_confirmed = users[u].step1_confirmed
              /\ once[u].step2_warning_ack = users[u].step2_warning_ack

\* the share menu has just marked shared_invite for a user whose
\* visited_sharing flag was set before and who has a sponsor
C13_Witness ==
    /\ last.op = "shared_invite"
    /\ last.branch = "marked"
    /\ FlagsOf(users, last.uid) = { "visited_sharing", "shared_invite" }
    /\ users[last.uid].sponsor_code # NULL

(***************************************************************************)
(* C14.  In every reachable store a /moveuser without the confirmation     *)
(* word (two arguments, or a third word that is not CONFIRM) leaves both   *)
(* tables exactly as they are, whoever sends it and whether or not the     *)
(* codes pass validation.                                                  *)
(***************************************************************************)
PreviewCodeArgs == ForestCodes \cup { << "a", "b" >> }

PreviewArgs ==
    { << a, b >> : a \in PreviewCodeArgs, b \in PreviewCodeArgs }
    \cup { << a, b, t >> : a \in ForestCodes, b \in ForestCodes, t \in { << "n", "o" >> } }

C14_PreviewChangesNothing ==
    \A caller \in Ids, args \in PreviewArgs :
        MoveUserStore(users, referrers, caller, args) = << users, referrers >>

\* a preview has just been shown for a member that has a sponsor, in a store
\* where a progress flag is set
C14_Witness ==
    /\ last.op = "moveuser"
    /\ last.branch = "preview"
    /\ HasRow(users, OwnerOf(referrers, last.code))
    /\ users[OwnerOf(referrers, last.code)].sponsor_code # NULL
    /\ \E u \in Ids : FlagsOf(users, u) # {}

(***************************************************************************)
(* C15.  In every reachable store a /moveuser with the CONFIRM word whose  *)
(* codes fail validation (one is not 6 alphanumeric characters, they are   *)
(* equal, or one is the code of no node) leaves both tables as they are.   *)
(***************************************************************************)
FailsValidation(R, args) ==
    \/ InvalidCode(Upper(args[1]))
    \/ InvalidCode(Upper(args[2]))
    \/ Upper(args[1]) = Upper(args[2])
    \/ RowsByCode(R, Upper(args[1])) = {}
    \/ RowsByCode(R, Upper(args[2])) = {}

ConfirmedArgs == { args \in MoveUserArgs : Len(args) = 3 /\ Upper(args[3]) = ConfirmWord }

C15_InvalidMoveWritesNothing ==
    \A caller \in Ids, args \in ConfirmedArgs :
        FailsValidation(referrers, args)
            => MoveUserStore(users, referrers, caller, args) = << users, referrers >>

\* a /moveuser has just been refused because the new sponsor is no node,
\* while the member is a node whose owner has a sponsor
C15_Witness ==
    /\ last.op = "moveuser"
    /\ last.branch = "sponsor_not_found"
    /\ \E r \in referrers :
           /\ HasRow(users, r.owner_telegram_id)
           /\ users[r.owner_telegram_id].sponsor_code # NULL

(***************************************************************************)
(* C16.  A confirmed /moveuser by an owner whose two codes are codes of    *)
(* nodes, differ, and whose new sponsor's owner is not in the member's     *)
(* downline is applied: it is not rejected as a circular reference.        *)
(***************************************************************************)
MoveOutsideDownline(args) ==
    /\ Len(args) = 3
    /\ Upper(args[3]) = ConfirmWord
    /\ Upper(args[1]) # Upper(args[2])
    /\ RowsByCode(referrers, Upper(args[1])) # {}
    /\ RowsByCode(referrers, Upper(args[2])) # {}
    /\ OwnerOf(referrers, Upper(args[2])) \notin Downline(users, referrers, Upper(args[1]))

C16_ValidMoveApplied ==
    [][ \A caller \in OwnerUserIds : \A args \in MoveUserArgs :
            (MoveOutsideDownline(args) /\ MoveUser(caller, args))
                => last'.branch = "moved" ]_vars

(***************************************************************************)
(* C17.  A confirmed /moveuser that is applied changes nothing but the     *)
(* sponsor code of the member: the nodes, the rows of all other            *)
(* identities (so every descendant's own sponsor code) and the other       *)
(* columns of the member's row are as before.                              *)
(***************************************************************************)
C17_ApplyChangesOnlyMemberSponsor ==
    [][ (last'.op = "moveuser" /\ last'.branch = "moved") =>
          LET member == OwnerOf(referrers, last'.code) IN
          /\ referrers' = referrers
          /\ DOMAIN users' = DOMAIN users
          /\ \A v \in (DOMAIN users) \ {member} : users'[v] = users[v]
          /\ HasRow(users, member) =>
                users' = [users EXCEPT ![member].sponsor_code = users'[member].sponsor_code]
      ]_vars

\* a move has just been applied to a member that has a direct member of its
\* own, in a store where a progress flag of another identity is set
C17_Witness ==
    /\ last.op = "moveuser"
    /\ last.branch = "moved"
    /\ HasRow(users, OwnerOf(referrers, last.code))
    /\ users[OwnerOf(referrers, last.code)].sponsor_code # NULL
    /\ \E v \in DOMAIN users :
           /\ v # OwnerOf(referrers, last.code)
           /\ users[v].sponsor_code = last.code
    /\ \E u \in Ids \ {OwnerOf(referrers, last.code)} : FlagsOf(users, u) # {}

(***************************************************************************)
(* C20.  After a confirmed /moveuser that reports the move done, the       *)
(* member has a participant record and its sponsor code is the new         *)
(* sponsor code.                                                           *)
(***************************************************************************)
C20_AppliedMoveIsStored ==
    [][ \A caller \in OwnerUserIds : \A args \in ConfirmedArgs :
            (MoveUser(caller, args) /\ last'.branch = "moved")
                => /\ HasRow(users', OwnerOf(referrers, Upper(args[1])))
                   /\ users'[OwnerOf(referrers, Upper(args[1]))].sponsor_code
                          = Upper(args[2]) ]_vars

(***************************************************************************)
(* C18.  A /moveuser sent by an identity that OWNER_USER_IDS does not list *)
(* changes neither table, whatever its arguments; with the variable unset  *)
(* this holds for every identity.                                          *)
(***************************************************************************)
\* the identities a reader finds listed in each of the values of OwnerEnvs
ListedOwners ==
    IF owner_ids_str = << >> THEN {}
    ELSE IF owner_ids_str = << << "1" >> >> THEN {1}
    ELSE {2}

C18_OnlyOwnersReassign ==
    [][ (last'.op = "moveuser" /\ last'.uid \notin ListedOwners)
            => (users' = users /\ referrers' = referrers) ]_vars

\* with no owner configured, a /moveuser has just been refused in a store
\* with two nodes, one of them sponsored
C18_Witness ==
    /\ owner_ids_str = << >>
    /\ last.op = "moveuser"
    /\ last.branch = "denied"
    /\ Cardinality(referrers) >= 2
    /\ \E r \in referrers :
           /\ HasRow(users, r.owner_telegram_id)
           /\ users[r.owner_telegram_id].sponsor_code # NULL

(***************************************************************************)
(* C19.  In every reachable store and for every code, team_with_links is   *)
(* the number of direct members of the code that own a node, it lies       *)
(* between 0 and total_team, and when the code has 5 direct members of     *)
(* whom 2 own nodes the three results are 5, 2 and a conversion of 40.     *)
(***************************************************************************)
DirectMembers(U, code) == { u \in DOMAIN U : U[u].sponsor_code = code }

NodeOwners(R) == { r.owner_telegram_id : r \in R }

C19_AffiliateCount ==
    \A code \in TeamCodes :
        LET stats == get_team_stats(users, referrers, code)
            affiliates == DirectMembers(users, code) \cap NodeOwners(referrers) IN
        /\ stats.total_team = Cardinality(DirectMembers(users, code))
        /\ stats.team_with_links = Cardinality(affiliates)
        /\ 0 <= stats.team_with_links
        /\ stats.team_with_links <= stats.total_team
        /\ (Cardinality(DirectMembers(users, code)) = 5 /\ Cardinality(affiliates) = 2)
              => /\ stats.total_team = 5
                 /\ stats.team_with_links = 2
                 /\ ConversionRate(stats.team_with_links, stats.total_team) = 40

\* the first sampled code has 5 direct members, 2 of them with a node
C19_Witness ==
    /\ Cardinality(DirectMembers(users, GenerateRefCode(Draw(1), RefCodeLength))) = 5
    /\ Cardinality(DirectMembers(users, GenerateRefCode(Draw(1), RefCodeLength))
                      \cap NodeOwners(referrers)) = 2
    /\ ReferrerRow(GenerateRefCode(Draw(1), RefCodeLength), 1) \in referrers

(***************************************************************************)
(* C21.  On an acyclic store a finished run of get_all_downline from the   *)
(* caller's code has listed exactly the caller's downline, every           *)
(* participant transitively referred by the code whether it owns a node or *)
(* not, each once, and not the caller.                                     *)
(***************************************************************************)
Listed == { out[i].telegram_id : i \in DOMAIN out }

C21_EnumerationIsDownline ==
    ( /\ epc = "done"
      /\ last.op = "member_list"
      /\ get_referrer_by_owner(referrers, last.uid) # {}
      /\ Acyclic(users, referrers) )
    => /\ Listed = Downline(users, referrers,
                            FetchOne(get_referrer_by_owner(referrers, last.uid)).ref_code)
       /\ \A i \in DOMAIN out, j \in DOMAIN out :
              out[i].telegram_id = out[j].telegram_id => i = j
       /\ last.uid \notin Listed

(***************************************************************************)
(* C22.  Every entry get_all_downline has appended carries a depth between *)
(* 1 and the maximum depth, and the depth is the number of sponsorship     *)
(* edges from the entry up to the code the run started from.               *)
(***************************************************************************)
RECURSIVE EdgesUp(_, _, _, _, _)
\* the number of edges from the node `code` up to the node `root`, -1 when
\* the chain above `code` ends or runs `fuel` nodes without meeting it
EdgesUp(U, R, code, root, fuel) ==
    IF code = root THEN 0
    ELSE IF fuel = 0 \/ ParentCode(U, R, code) = NULL THEN -1
    ELSE LET above == EdgesUp(U, R, ParentCode(U, R, code), root, fuel - 1) IN
         IF above < 0 THEN -1 ELSE above + 1

\* the edges from a participant up to the node `root`
EdgesFromMember(U, R, id, root) ==
    IF ~HasRow(U, id) \/ U[id].sponsor_code = NULL THEN -1
    ELSE LET above == EdgesUp(U, R, U[id].sponsor_code, root, Cardinality(R)) IN
         IF above < 0 THEN -1 ELSE above + 1

C22_DepthWithinLimit ==
    (last.op = "member_list" /\ get_referrer_by_owner(referrers, last.uid) # {})
    => \A i \in DOMAIN out :
           /\ 1 <= out[i].depth
           /\ out[i].depth <= MaxDepth
           /\ out[i].depth =
                  EdgesFromMember(users, referrers, out[i].telegram_id,
                      FetchOne(get_referrer_by_owner(referrers, last.uid)).ref_code)

(***************************************************************************)
(* C23.  On every store, cyclic ones included, is_in_upline(code, target)  *)
(* has a value, and it is true exactly when target owns one of the first   *)
(* MaxDepth + 1 nodes of the sponsor chain that starts at the node `code`  *)
(* and climbs through the sponsor code of each owner; the chain ends at a  *)
(* code without node and at an owner without sponsor.                      *)
(***************************************************************************)
RECURSIVE ChainOwnersSeq(_, _, _, _)
\* the owners of the first n nodes of the sponsor chain that starts at `code`
ChainOwnersSeq(U, R, code, n) ==
    IF n = 0 \/ RowsByCode(R, code) = {} THEN << >>
    ELSE << OwnerOf(R, code) >> \o
         ( IF ~HasRow(U, OwnerOf(R, code)) \/ U[OwnerOf(R, code)].sponsor_code = NULL
           THEN << >>
           ELSE ChainOwnersSeq(U, R, U[OwnerOf(R, code)].sponsor_code, n - 1) )

C23_AncestorWalk ==
    epc = "idle" =>
        \A code \in ChainCodes :
            LET owners == Range(ChainOwnersSeq(users, referrers, code, MaxDepth + 1)) IN
            \A target \in ChainIds :
                is_in_upline(users, referrers, code, target, 0) = (target \in owners)

\* a cycle of three nodes: from the node of identity 1 the walk meets
\* identity 2 two edges up, and circles to the depth limit for identity 4
C23_Witness ==
    /\ epc = "idle"
    /\ Cardinality(referrers) = 3
    /\ HasRow(users, 1)
    /\ users[1].sponsor_code = ChainCode(3)
    /\ is_in_upline(users, referrers, ChainCode(1), 2, 0)
    /\ ~is_in_upline(users, referrers, ChainCode(1), 4, 0)

(***************************************************************************)
(* C24.  As stated: the percentile get_user_rank returns for a node owner  *)
(* is rank / total * 100 rounded to the nearest integer, 67 for rank 2 of  *)
(* 3.                                                                      *)
(***************************************************************************)
Abs(x) == IF x < 0 THEN -x ELSE x

RankOf(u) == get_user_rank(users, referrers, u)

NodeCodes(R) == { r.ref_code : r \in R }

DecileCount(R) == (Cardinality(NodeCodes(R)) + 9) \div 10

TopNodes(U, R) ==
    { S \in SUBSET NodeCodes(R) :
        /\ Cardinality(S) = DecileCount(R)
        /\ \A c \in S, d \in NodeCodes(R) \ S : TeamSize(U, c) >= TeamSize(U, d) }

C25_TopDecileOverNodes ==
    referrers # {} =>
        \A res \in get_top10_stats(users, referrers) :
            \E S \in TopNodes(users, referrers) :
                /\ res.top10_visitors = TotalVisitors(users, S) \div DecileCount(referrers)
                /\ res.top10_members =
                       TotalMembers(users, referrers, S) \div DecileCount(referrers)

(***************************************************************************)
(* C28.  With no reset, at most one celebration is created for one         *)
(* identity and one stage, however often a button or flow is repeated.     *)
(***************************************************************************)
C28_CelebrationOneShot ==
    \A k \in DOMAIN tasks : tasks[k] <= 1

(***************************************************************************)
(* C29.  A step that raises the number of completed stages of the tracked  *)
(* user creates a celebration for that user, and a step that leaves the    *)
(* number unchanged creates none.                                          *)
(***************************************************************************)
CreatedFor(u) ==
    { step \in 1..TotalStages : tasks'[<< u, step >>] > tasks[<< u, step >>] }

C29_CelebrationOnEveryRaise ==
    [][ \A u \in Trackers :
          /\ CompletedStages(users', referrers', u) > CompletedStages(users, referrers, u)
                => CreatedFor(u) # {}
          /\ CompletedStages(users', referrers', u) = CompletedStages(users, referrers, u)
                => CreatedFor(u) = {} ]_vars

(***************************************************************************)
(* C26.  When a handler has called mark_progress_action(id, action) for    *)
(* one of the three actions, get_user_progress(id) shows the flag of that  *)
(* action set, whether or not id had a row in users.                       *)
(***************************************************************************)
C26_MarkedFlagIsRead ==
    (last.op \in ProgressActions /\ last.branch = "marked")
        => get_user_progress(users, last.uid)[last.op]

(***************************************************************************)
(* C27.  The percentage of every identity is floor(100 * k / 7), k being 3 *)
(* when the identity owns a node and 0 when not, plus one for each of its  *)
(* three stored flags that is set, plus one when a direct member of its    *)
(* code owns a node.                                                       *)
(***************************************************************************)
StoredFlags(U, u) ==
    IF HasRow(U, u)
    THEN Bit(U[u].progress_visited_sharing) + Bit(U[u].progress_shared_invite)
           + Bit(U[u].progress_visited_member_tools)
    ELSE 0

StagesOf(U, R, u) ==
    IF u \in NodeOwners(R)
    THEN 3 + StoredFlags(U, u)
           + Bit(\E r \in R : /\ r.owner_telegram_id = u
                              /\ DirectMembers(U, r.ref_code) \cap NodeOwners(R) # {})
    ELSE StoredFlags(U, u)

C27_PercentageFormula ==
    \A u \in Ids :
        LET p == calculate_progress_percentage(users, referrers, u)
            k == StagesOf(users, referrers, u) IN
        /\ p * 7 <= 100 * k
        /\ 100 * k < (p + 1) * 7

\* the tracked user owns a node, has confirmed nothing, has two flags set
\* and a direct member with a node: 6 of 7 stages, 85 percent
C27_Witness ==
    \E u \in Trackers :
        /\ HasRow(users, u)
        /\ ~users[u].step1_confirmed
        /\ ~users[u].step2_warning_ack
        /\ StagesOf(users, referrers, u) = 6
        /\ DirectMembers(users, FetchOne(RowsByOwner(referrers, u)).ref_code)
               \cap NodeOwners(referrers) # {}
        /\ calculate_progress_percentage(users, referrers, u) = 85

RECURSIVE UplineOwners(_, _, _, _)
UplineOwners(U, R, code, visited) ==
    IF ParentCode(U, R, code) = NULL THEN {}
    ELSE IF ParentCode(U, R, code) \in visited
         THEN { OwnerOf(R, ParentCode(U, R, code)) }
    ELSE { OwnerOf(R, ParentCode(U, R, code)) }
            \cup UplineOwners(U, R, ParentCode(U, R, code),
                              visited \cup {ParentCode(U, R, code)})

\* the owners of the nodes above the node of identity `id`
UplineOf(U, R, id) ==
    UNION { UplineOwners(U, R, r.ref_code, {r.ref_code}) : r \in RowsByOwner(R, id) }

\* the participants below the node of identity `id`
DownlineOf(U, R, id) ==
    UNION { Downline(U, R, r.ref_code) : r \in RowsByOwner(R, id) }

(***************************************************************************)
(* C32.  For an analyzer who is neither owner nor admin,                   *)
(* can_analyze_member(analyzer, targetCode) is true only when the owner of *)
(* targetCode is in the analyzer's own downline, and never when that owner *)
(* is in the analyzer's upline.                                            *)
(***************************************************************************)
C32_DownlineOnlyNeverUpline ==
    \A analyzer \in Ids : \A target_code \in Codes :
        (/\ ~is_owner(analyzer)
         /\ ~is_admin(analyzer)
         /\ can_analyze_member(users, referrers, analyzer, target_code))
            => /\ OwnerOf(referrers, target_code) \in DownlineOf(users, referrers, analyzer)
               /\ OwnerOf(referrers, target_code) \notin UplineOf(users, referrers, analyzer)

(***************************************************************************)
(* C33.  Over /start with invite codes, affiliate registration, join       *)
(* confirmation and self /reset alone (no /moveuser, no /resetuser) no     *)
(* identity is sponsored by a code it owns and no sponsor chain revisits   *)
(* a node.                                                                 *)
(***************************************************************************)
C33_OrdinaryFlowsStayAcyclic ==
    /\ \A u \in Ids :
          (HasRow(users, u) /\ users[u].sponsor_code # NULL)
              => users[u].sponsor_code \notin CodesOwnedBy(referrers, {u})
    /\ \A r \in referrers : ~ChainRevisits(users, referrers, r.ref_code, {r.ref_code})

(***************************************************************************)
(* C34.  Immediately after registerAffiliate has created a node for an     *)
(* identity that had none, no participant has the new node's code as       *)
(* sponsor code: directCount of the new node is 0.                         *)
(***************************************************************************)
C34_FreshNodeHasNoMembers ==
    (last.op = "register" /\ last.branch = "created")
        => DirectCount(users, referrers, last.code) = 0

(***************************************************************************)
(* C35.  In every reachable state an identity with a stored action flag    *)
(* set owns a node, and the percentage of every identity is one of 0, 42,  *)
(* 57, 71, 85 and 100.                                                     *)
(***************************************************************************)
C35_FlagsOnlyWithNode ==
    \A u \in Ids :
        /\ FlagsOf(users, u) # {} => u \in NodeOwners(referrers)
        /\ calculate_progress_percentage(users, referrers, u) \in { 0, 42, 57, 71, 85, 100 }

\* an identity that owns a node has set all three flags and, a direct member
\* of its code owning a node too, reads 100 %
C35_Witness ==
    \E u \in Ids :
        /\ FlagsOf(users, u) = ProgressActions
        /\ u \in NodeOwners(referrers)
        /\ calculate_progress_percentage(users, referrers, u) = 100

(***************************************************************************)
(* C36.  Every node the link capture has created or updated holds a        *)
(* Step 1 URL that passes validate_step1_url and a Step 2 URL that passes  *)
(* validate_step2_url, whatever the order of the pastes and the clicks     *)
(* between them, and no session has awaiting_step1_url and                 *)
(* awaiting_step2_url both true.                                           *)
(***************************************************************************)
C36_OnlyValidatedLinksSaved ==
    /\ \A o \in DOMAIN links :
          /\ validate_step1_url(links[o].step1_url)
          /\ validate_step2_url(links[o].step2_url)
    /\ \A u \in DOMAIN user_data :
          ~(user_data[u].awaiting_step1_url /\ user_data[u].awaiting_step2_url)

\* a node has just been saved by the Step 1 link arriving last, the Step 2
\* link having been pasted first, while the other user, whose node holds
\* other links, has pasted a new Step 1 link and is asked for the Step 2 link
C36_Witness ==
    /\ last.op = "text"
    /\ last.branch = "saved_step1_last"
    /\ last.uid \in DOMAIN links
    /\ \E v \in DOMAIN user_data \ {last.uid} :
          /\ user_data[v].awaiting_step2_url
          /\ user_data[v].temp_step1_url # EmptyText
          /\ v \in DOMAIN links
          /\ links[v].step1_url # user_data[v].temp_step1_url

(***************************************************************************)
(* C37.  For the code of any node, count_downline from that code equals    *)
(* the number of entries get_all_downline returns from the same code, and  *)
(* the owner of the code is not among the members counted.                 *)
(***************************************************************************)
C37_CountEqualsEnumeration ==
    ( /\ epc = "done"
      /\ last.op = "member_list"
      /\ get_referrer_by_owner(referrers, last.uid) # {} )
    => LET member_code == FetchOne(get_referrer_by_owner(referrers, last.uid)).ref_code IN
       /\ count_downline(users, referrers, member_code, 0, {}).count = Len(out)
       /\ count_downline(users, referrers, member_code, 0, {}).count
             <= Cardinality(NodeOwners(referrers) \ {last.uid})

(***************************************************************************)
(* C38.  When a user whose sponsor code is the code of a node confirms the *)
(* sponsor (join:confirm_sponsor_yes) the confirmation is recorded without *)
(* an error, and the 'How to Join' request that user sends after it is     *)
(* answered with the join menu, not with the sponsor confirmation screen.  *)
(***************************************************************************)
SponsorResolves(U, R, u) ==
    /\ HasRow(U, u)
    /\ U[u].sponsor_code # NULL
    /\ get_referrer_by_code(R, U[u].sponsor_code) # {}

C38_ConfirmationSticks ==
    [][ /\ (last'.op = "confirm_sponsor_yes" /\ SponsorResolves(users, referrers, last'.uid))
              => last'.branch = "recorded"
        /\ ( /\ last.op = "confirm_sponsor_yes"
             /\ SponsorResolves(users, referrers, last.uid)
             /\ last'.op = "menu_join"
             /\ last'.uid = last.uid )
              => last'.branch = "join_menu" ]_vars

(***************************************************************************)
(* C39.  Every reading of the progress tracker, by progress:view and by    *)
(* the refresh after progress:confirm_step1 and progress:confirm_step2,    *)
(* ends with a rendered message and not in an error, at every percentage   *)
(* from 0 to 100.                                                          *)
(***************************************************************************)
C39_TrackerRenders ==
    last.op \in { "progress_view", "step1_confirmed", "step2_confirmed" }
        => last.branch = "rendered"

(***************************************************************************)
(* C40.  The 'vs average' comparison of the member analysis never divides  *)
(* by zero: for every node whose affiliate count is greater than the       *)
(* truncated mean affiliate count over all nodes, that mean is not 0.      *)
(***************************************************************************)
C40_AverageNeverZeroDivisor ==
    \A r \in referrers :
        VsAverage(users, referrers, r.owner_telegram_id) # "ZeroDivisionError"

====
